---- MODULE Spec2Model ----
(***************************************************************************)
(* A model of the CyberGuard fraud-detection service (src/app.py): the     *)
(* USSD scorer pattern_score_ussd, the SMS scorer improved_check_sms_scam  *)
(* and the flat-file community-report store with its moderation endpoints, *)
(* the /check-ussd endpoint with its cache, the curation endpoints, the    *)
(* readers of the data files, the daily limit of the premium variant       *)
(* (src/cyberguard_premium.py) and the updater (src/auto_updater.py).      *)
(* Text is modelled at character level: a string is a sequence of          *)
(* one-character strings, so that strip, replace, lower, the regular       *)
(* expressions and the substring tests are computed as the code does.      *)
(***************************************************************************)
EXTENDS Integers, Sequences, FiniteSets, TLC

VARIABLES
  ussd_call,      \* the last pattern_score_ussd call: its argument and its return value
  sms_call,       \* the last improved_check_sms_scam call: its argument and its return value
  reports_file,   \* data/community_reports.json: what its bytes hold
  curated_file,   \* data/curated_codes.json: the list of curated codes
  safe_file,      \* data/safe_ussd_codes.txt: its lines
  blacklist_file, \* data/blacklist_ussd.txt: its lines
  requests,       \* the HTTP requests: endpoint, body, position in the handler, locals, response
  reports_at_start, \* history: the reports stored when the service started
  reports_before,  \* history: the reports the file held before the last write began
  cache_file,      \* data/ussd_cache.json: the map from code to cache entry
  check_call,      \* the last /check-ussd request: its parameters and its response
  read_call,       \* a read of a file-backed collection: the reader, the file, the outcome
  today,           \* premium variant: datetime.now().date(), as a day number
  user_objects,    \* premium variant: the user dicts that exist, by identity
  users_db,        \* premium variant: the dict users_db holds for the user, 0 for none
  premium_requests, \* premium variant: the check requests: position, the dict they hold
  clock,           \* updater: datetime.now(), in hours
  last_update_file, \* updater: data/last_update.txt: whether it exists, the time it holds
  stats_file,      \* updater: data/update_stats.json
  updater_calls,   \* updater: the calls of update_safe_codes and force_update in progress
  last_done,       \* history: the time the last update was completed
  compare_call,    \* one input given to two endpoints, with the two answers
  detector         \* test_auto_sms.py: the AutoSMSDetector and the calls made on it

scorer_vars == <<ussd_call, sms_call>>
store_vars == <<reports_file, curated_file, safe_file, blacklist_file, requests,
                reports_at_start, reports_before>>
check_vars == <<cache_file, check_call>>
read_vars == <<read_call>>
premium_vars == <<today, user_objects, users_db, premium_requests>>
\* the variables of the premium variant and of the updater
updater_vars == <<clock, last_update_file, stats_file, updater_calls, last_done>>
compare_vars == <<compare_call, detector>>
variant_vars == <<premium_vars, updater_vars, compare_vars>>
\* the variables that neither the scorers' callers nor the report handlers touch
service_vars == <<check_vars, read_vars, variant_vars>>
vars == <<ussd_call, sms_call, reports_file, curated_file, safe_file, blacklist_file,
          requests, reports_at_start, reports_before, cache_file, check_call, read_call,
          today, user_objects, users_db, premium_requests,
          clock, last_update_file, stats_file, updater_calls, last_done, compare_call,
          detector>>

(***************************************************************************)
(* Characters and strings                                                  *)
(***************************************************************************)
Digits == {"0","1","2","3","4","5","6","7","8","9"}
UpperLetters == <<"A","B","C","D","E","F","G","H","I","J","K","L","M","N","O","P","Q","R","S","T","U","V","W","X","Y","Z">>
LowerLetters == <<"a","b","c","d","e","f","g","h","i","j","k","l","m","n","o","p","q","r","s","t","u","v","w","x","y","z">>
\* string.punctuation, but for the backquote, which no input of the model holds
Punctuation ==
  {"!", "\"", "#", "$", "%", "&", "'", "(", ")", "*", "+", ",", "-", ".", "/", ":", ";", "<", "=", ">", "?", "@", "[", "\\", "]", "^", "_", "{", "|", "}", "~"}
\* the whitespace that str.strip, str.split and the regex \s recognise
Whitespace == {" ", "\t", "\n", "\r", "\f"}

IsDigit(ch) == ch \in Digits
IsLetter(ch) == \E i \in 1..26 : ch = UpperLetters[i] \/ ch = LowerLetters[i]

Min2(a, b) == IF a <= b THEN a ELSE b
Max2(a, b) == IF a >= b THEN a ELSE b

\* str.lower() on one character
LowerChar(ch) ==
  IF \E i \in 1..26 : ch = UpperLetters[i]
    THEN LowerLetters[CHOOSE i \in 1..26 : ch = UpperLetters[i]]
    ELSE ch

\* str.upper() on one character
UpperChar(ch) ==
  IF \E i \in 1..26 : ch = LowerLetters[i]
    THEN UpperLetters[CHOOSE i \in 1..26 : ch = LowerLetters[i]]
    ELSE ch

Lower(s) == [i \in 1..Len(s) |-> LowerChar(s[i])]
Upper(s) == [i \in 1..Len(s) |-> UpperChar(s[i])]

\* str.strip(): leading and trailing whitespace removed
Strip(s) ==
  LET keep == {i \in 1..Len(s) : s[i] \notin Whitespace}
      lo == CHOOSE i \in keep : \A j \in keep : i <= j
      hi == CHOOSE i \in keep : \A j \in keep : i >= j
  IN IF keep = {} THEN <<>> ELSE SubSeq(s, lo, hi)

\* str.replace(" ", "")
RemoveSpaces(s) == SelectSeq(s, LAMBDA ch : ch /= " ")

\* s.startswith(p)
StartsWith(s, p) == Len(p) <= Len(s) /\ SubSeq(s, 1, Len(p)) = p

\* the positions at which sub occurs in s
Occurrences(s, sub) ==
  {i \in 1..(Len(s) - Len(sub) + 1) : SubSeq(s, i, i + Len(sub) - 1) = sub}

\* sub in s
Contains(s, sub) == Occurrences(s, sub) /= {}

RECURSIVE Concat(_)
Concat(ss) == IF ss = <<>> THEN <<>> ELSE Head(ss) \o Concat(Tail(ss))

\* s.split(sep) for a one-character separator: empty pieces are kept
RECURSIVE SplitOn(_, _)
SplitOn(s, sep) ==
  LET at == {i \in 1..Len(s) : s[i] = sep}
      first == CHOOSE i \in at : \A j \in at : i <= j
  IN IF at = {} THEN <<s>>
     ELSE <<SubSeq(s, 1, first - 1)>> \o SplitOn(SubSeq(s, first + 1, Len(s)), sep)

SeqToSet(s) == {s[i] : i \in DOMAIN s}

(***************************************************************************)
(* USSD scorer                                                             *)
(***************************************************************************)
SAFE_PREFIX_PATTERNS ==
  <<
    <<"*","1","2","3">>, <<"*","1","2","3","*">>, <<"*","3","1","0">>, <<"*","3","1","1">>,
    <<"*","3","1","2">>, <<"*","3","2","3">>, <<"*","3","2","1">>, <<"*","1","3","1">>,
    <<"*","4","0","4">>, <<"*","6","0","6">>, <<"*","2","4","4">>, <<"*","2","4","4","*">>,
    <<"*","5","5","6">>, <<"*","1","2","1">>, <<"*","1","4","0">>, <<"*","1","2","3">>,
    <<"*","1","2","4">>, <<"*","1","2","6">>, <<"*","1","3","7">>, <<"*","1","2","4">>,
    <<"*","1","2","7">>, <<"*","1","2","9">>, <<"*","1","3","0">>, <<"*","1","3","1">>,
    <<"*","1","3","2">>, <<"*","1","3","3">>, <<"*","2","2","8">>, <<"*","2","3","2">>,
    <<"*","2","3","3">>, <<"*","2","2","9">>, <<"*","9","0","1">>, <<"*","9","0","2">>,
    <<"*","9","0","9">>, <<"*","9","1","1">>, <<"*","8","2","6">>, <<"*","9","8","9">>,
    <<"*","7","3","7">>, <<"*","7","3","7","*">>, <<"*","7","7","9">>, <<"*","7","7","9","*">>,
    <<"*","1","3","5">>, <<"*","1","3","6">>, <<"*","1","3","7">>, <<"*","1","3","8">>,
    <<"*","1","3","9">>, <<"*","1","4","4">>, <<"*","#","2","1">>, <<"*","#","6","1">>,
    <<"*","#","6","2">>, <<"*","#","6","7">>, <<"*","#","0","6">>, <<"*","1","9","9">>,
    <<"*","7","7","0">>, <<"*","8","9","4">>, <<"*","3","2","9">>, <<"*","5","6","5">>,
    <<"*","3","2","6">>, <<"*","2","4","5","4","2">>, <<"*","2","4","4","*","1">>, <<"*","1","2","3","*","1">>,
    <<"*","1","2","3","*","2">>, <<"*","1","2","3","*","4">>
  >>

KNOWN_SAFE_CODES ==
  {
    <<"*","1","2","3","#">>, <<"*","1","2","3","*","1","#">>, <<"*","1","2","3","*","1","*","1","#">>,
    <<"*","1","2","3","*","2","#">>, <<"*","1","2","3","*","4","#">>, <<"*","3","1","0","#">>,
    <<"*","3","1","1","#">>, <<"*","3","1","2","#">>, <<"*","3","2","1","#">>,
    <<"*","1","3","1","#">>, <<"*","1","2","1","#">>, <<"*","1","2","4","#">>,
    <<"*","2","2","8","#">>, <<"*","9","0","1","#">>, <<"*","9","0","2","#">>,
    <<"*","9","0","9","#">>, <<"*","9","1","1","#">>, <<"*","8","2","6","#">>,
    <<"*","9","8","9","#">>, <<"*","7","3","7","#">>, <<"*","1","9","9","#">>,
    <<"*","#","2","1","#">>, <<"*","#","6","1","#">>, <<"*","#","6","2","#">>,
    <<"*","#","6","7","#">>, <<"*","#","0","6","#">>, <<"*","2","4","4","*","1","#">>,
    <<"*","2","4","5","4","2","#">>, <<"*","2","3","2","#">>, <<"*","2","3","3","#">>,
    <<"*","3","2","2","#">>, <<"*","3","2","6","#">>, <<"*","3","2","9","#">>,
    <<"*","5","6","5","#">>, <<"*","1","2","6","#">>
  }

high_risk_kw == <<<<"b","v","n">>,
                 <<"p","i","n">>,
                 <<"p","a","s","s","w","o","r","d">>,
                 <<"p","a","s","s","c","o","d","e">>,
                 <<"v","e","r","i","f">>,
                 <<"a","u","t","h">>>>
medium_risk_kw == <<<<"a","c","c","o","u","n","t">>,
                   <<"c","o","n","f","i","r","m">>,
                   <<"s","e","c","u","r","e">>,
                   <<"u","p","d","a","t","e">>,
                   <<"v","a","l","i","d","a","t","e">>>>

\* one entry of the reasons list: the text, and the keyword or the number
\* that the code formats into it
Reason(text, kw, n) == [text |-> text, kw |-> kw, n |-> n]

normalize_ussd(code) == IF code = <<>> THEN <<>> ELSE RemoveSpaces(Strip(code))

\* normalize_code of the curation endpoints
normalize_code(code) == Upper(RemoveSpaces(Strip(code)))

\* re.match(r"^\*[\d\*\#A-Za-z]+#?$", s); $ also matches before a final newline
IsUssdChar(ch) == IsDigit(ch) \/ ch = "*" \/ ch = "#" \/ IsLetter(ch)
UssdBody(s) == Len(s) >= 2 /\ s[1] = "*" /\ \A i \in 2..Len(s) : IsUssdChar(s[i])
UssdFormatMatch(s) ==
  \/ UssdBody(s)
  \/ Len(s) >= 1 /\ s[Len(s)] = "\n" /\ UssdBody(SubSeq(s, 1, Len(s) - 1))

\* the prefix test that finds no known safe prefix
HasSafePrefixNever(c) == FALSE

\* any(c.startswith(p) for p in SAFE_PREFIX_PATTERNS)
HasSafePrefix(c) ==
  \E i \in DOMAIN SAFE_PREFIX_PATTERNS : StartsWith(c, SAFE_PREFIX_PATTERNS[i])

\* len(re.sub(r"\D", "", c))
DigitCount(c) == Cardinality({i \in 1..Len(c) : IsDigit(c[i])})

\* re.sub(r"^\*|\#$", "", c).split("*")
Segments(c) ==
  LET a == IF Len(c) >= 1 /\ c[1] = "*" THEN Tail(c) ELSE c
      b == IF Len(a) >= 1 /\ a[Len(a)] = "#" THEN SubSeq(a, 1, Len(a) - 1) ELSE a
  IN SplitOn(b, "*")

\* the keyword test with startswith in the place of "in"
KeywordHitsAtStart(kws, low) == SelectSeq(kws, LAMBDA k : StartsWith(low, k))

\* the keywords of kws found in low, in list order
KeywordHits(kws, low) == SelectSeq(kws, LAMBDA k : Contains(low, k))

\* the value the empty-code branch returns as score
EmptyCodeScore == 100

\* min(max(0, score), 10)
ClampScore(score) == Min2(Max2(0, score), 10)

\* score = max(0, score - 2) for a known safe prefix
PrefixReduction(score) == Max2(0, score - 2)

\* the rule accumulation of pattern_score_ussd on a normalised code, lines 235-275
UssdRules(c) ==
  LET fmt == UssdFormatMatch(c)
      s1 == IF fmt THEN 0 ELSE 4
      r1 == IF fmt THEN <<>> ELSE <<Reason("Invalid USSD format", <<>>, 0)>>
      is_known_safe == HasSafePrefix(c)
      s2 == IF is_known_safe THEN PrefixReduction(s1) ELSE s1
      r2 == IF is_known_safe THEN <<Reason("Known safe prefix", <<>>, 0)>> ELSE <<>>
      nd == DigitCount(c)
      s3 == IF nd >= 9 THEN 6 ELSE IF nd >= 6 THEN 2 ELSE 0
      r3 == IF nd >= 9 THEN <<Reason("Long numeric sequence", <<>>, nd)>>
            ELSE IF nd >= 6 THEN <<Reason("Moderate numeric sequence", <<>>, 0)>>
            ELSE <<>>
      low == Lower(c)
      high == KeywordHits(high_risk_kw, low)
      medium == KeywordHits(medium_risk_kw, low)
      s4 == 8 * Len(high) + 4 * Len(medium)
      r4 == [i \in 1..Len(high) |-> Reason("High-risk keyword", high[i], 0)]
            \o [i \in 1..Len(medium) |-> Reason("Medium-risk keyword", medium[i], 0)]
      segments == Segments(c)
      many == Len(segments) > 3
      rep == Cardinality(SeqToSet(segments)) <= 1 /\ Len(segments) > 1
      s5 == (IF many THEN 3 ELSE 0) + (IF rep THEN 4 ELSE 0)
      r5 == (IF many THEN <<Reason("Many segments", <<>>, Len(segments))>> ELSE <<>>)
            \o (IF rep THEN <<Reason("Repeating segments", <<>>, 0)>> ELSE <<>>)
      letters == (\E i \in 1..Len(c) : IsLetter(c[i])) /\ ~is_known_safe
      s6 == (IF letters THEN 2 ELSE 0) + (IF is_known_safe THEN 0 ELSE 1)
      r6 == (IF letters THEN <<Reason("Contains letters", <<>>, 0)>> ELSE <<>>)
            \o (IF is_known_safe THEN <<>> ELSE <<Reason("Unknown prefix", <<>>, 0)>>)
  IN [score |-> ClampScore(s2 + s3 + s4 + s5 + s6),
      reasons |-> r1 \o r2 \o r3 \o r4 \o r5 \o r6]

\* pattern_score_ussd with the whitelist test left out
pattern_score_ussd_no_whitelist(code) ==
  LET c == normalize_ussd(code)
  IN IF c = <<>>
       THEN [score |-> EmptyCodeScore, reasons |-> <<Reason("Empty code", <<>>, 0)>>]
     ELSE UssdRules(c)

pattern_score_ussd(code) ==
  LET c == normalize_ussd(code)
  IN IF c = <<>>
       THEN [score |-> EmptyCodeScore, reasons |-> <<Reason("Empty code", <<>>, 0)>>]
     ELSE IF c \in KNOWN_SAFE_CODES
       THEN [score |-> 0, reasons |-> <<Reason("Known safe telco/bank code", <<>>, 0)>>]
     ELSE UssdRules(c)

\* the inputs: every concatenation of at most MaxUssdChunks pieces
UssdChunks ==
  <<<<" ">>,
    <<"\t">>,
    <<"*">>,
    <<"#">>,
    <<"*","9","0","1","#">>,
    <<"*","1","2","3">>,
    <<"1">>,
    <<"5","5","5","5","5">>,
    <<"p","i","n">>,
    <<"B","V","N">>,
    <<"p","a","s","s","w","o","r","d">>,
    <<"a","c","c","o","u","n","t">>,
    <<"x">>,
    <<"*","2","*","2">>>>
MaxUssdChunks == 3

\* the code of the documented example
UssdExamples == {<<"*","1","2","3","*","p","a","s","s","w","o","r","d","*","#">>}

UssdInputs ==
  UssdExamples \cup
  {Concat([i \in 1..Len(f) |-> UssdChunks[f[i]]]) :
     f \in UNION {[1..n -> DOMAIN UssdChunks] : n \in 0..MaxUssdChunks}}

(***************************************************************************)
(* SMS scorer                                                              *)
(***************************************************************************)
\* content.lower().translate(str.maketrans('', '', string.punctuation))
SmsNormalize(content) == SelectSeq(Lower(content), LAMBDA ch : ch \notin Punctuation)

\* str.split(): the maximal runs of non-whitespace characters
RECURSIVE Words(_)
Words(s) ==
  LET ws == {i \in 1..Len(s) : s[i] \in Whitespace}
      first == CHOOSE i \in ws : \A j \in ws : i <= j
  IN IF ws = {} THEN (IF s = <<>> THEN <<>> ELSE <<s>>)
     ELSE (IF first = 1 THEN <<>> ELSE <<SubSeq(s, 1, first - 1)>>)
          \o Words(SubSeq(s, first + 1, Len(s)))

\* separator.join(items)
RECURSIVE JoinWith(_, _)
JoinWith(items, sep) ==
  IF items = <<>> THEN <<>>
  ELSE IF Len(items) = 1 THEN items[1]
  ELSE items[1] \o sep \o JoinWith(Tail(items), sep)

\* n digits stand at positions i .. i+n-1 of s
DigitsAt(s, i, n) == i >= 1 /\ i + n - 1 <= Len(s) /\ \A j \in i..(i + n - 1) : IsDigit(s[j])

\* regex "." matches every character of s[from..to]: none is a newline
NoNewline(s, from, to) == \A j \in from..to : s[j] /= "\n"

\* re.search(a + ".*" + b, s) for two literals a and b
LitThenLit(s, a, b) ==
  \E i \in Occurrences(s, a) : \E j \in Occurrences(s, b) :
     j >= i + Len(a) /\ NoNewline(s, i + Len(a), j - 1)

\* re.search(a + ".*" + r"\d{n,}", s) for a literal a
LitThenDigits(s, a, n) ==
  \E i \in Occurrences(s, a) : \E k \in (i + Len(a))..Len(s) :
     DigitsAt(s, k, n) /\ NoNewline(s, i + Len(a), k - 1)

\* the phrase pattern that never matches
LitLitThenDigitsNever(s, a, b, n) == FALSE

\* re.search(a + ".*" + b + ".*" + r"\d{n,}", s) for two literals a and b
LitLitThenDigits(s, a, b, n) ==
  \E i \in Occurrences(s, a) : \E j \in Occurrences(s, b) :
     /\ j >= i + Len(a)
     /\ NoNewline(s, i + Len(a), j - 1)
     /\ \E k \in (j + Len(b))..Len(s) :
           DigitsAt(s, k, n) /\ NoNewline(s, j + Len(b), k - 1)

\* r"your otp is \d{4,6}"
OtpTemplate(s) ==
  \E i \in Occurrences(s, <<"y","o","u","r"," ","o","t","p"," ","i","s"," ">>) : DigitsAt(s, i + 12, 4)

\* r"verification code:?\s*\d+"
VerificationTemplate(s) ==
  \E i \in Occurrences(s, <<"v","e","r","i","f","i","c","a","t","i","o","n"," ","c","o","d","e">>) :
     \E c \in {0, 1} : \E w \in 0..Len(s) :
        LET p == i + 17 + c
        IN /\ (c = 1 => (p - 1 <= Len(s) /\ s[p - 1] = ":"))
           /\ p + w <= Len(s)
           /\ \A j \in p..(p + w - 1) : s[j] \in Whitespace
           /\ IsDigit(s[p + w])

\* r"meeting at \d"
MeetingTemplate(s) ==
  \E i \in Occurrences(s, <<"m","e","e","t","i","n","g"," ","a","t"," ">>) : DigitsAt(s, i + 11, 1)

\* r"delivery (arriving|scheduled)"
DeliveryTemplate(s) ==
  \/ Contains(s, <<"d","e","l","i","v","e","r","y"," ","a","r","r","i","v","i","n","g">>)
  \/ Contains(s, <<"d","e","l","i","v","e","r","y"," ","s","c","h","e","d","u","l","e","d">>)

\* r"hello,? how are you"
GreetingTemplate(s) ==
  \/ Contains(s, <<"h","e","l","l","o",","," ","h","o","w"," ","a","r","e"," ","y","o","u">>)
  \/ Contains(s, <<"h","e","l","l","o"," ","h","o","w"," ","a","r","e"," ","y","o","u">>)

\* any(re.search(pattern, normalized) for pattern in legitimate_patterns)
LegitimateMatch(s) ==
  \/ OtpTemplate(s)
  \/ VerificationTemplate(s)
  \/ MeetingTemplate(s)
  \/ DeliveryTemplate(s)
  \/ GreetingTemplate(s)

\* the scam_indicators table: <<word, weight>>
scam_indicators ==
  <<<<<<"w","o","n">>, 4>>,
    <<<<"w","i","n">>, 4>>,
    <<<<"p","r","i","z","e">>, 4>>,
    <<<<"l","o","t","t","e","r","y">>, 5>>,
    <<<<"m","i","l","l","i","o","n">>, 4>>,
    <<<<"c","a","s","h">>, 3>>,
    <<<<"a","w","a","r","d">>, 3>>,
    <<<<"c","l","a","i","m">>, 3>>,
    <<<<"u","r","g","e","n","t">>, 3>>,
    <<<<"i","m","m","e","d","i","a","t","e","l","y">>, 3>>,
    <<<<"v","e","r","i","f","i","c","a","t","i","o","n">>, 2>>,
    <<<<"b","v","n">>, 6>>,
    <<<<"p","a","s","s","w","o","r","d">>, 5>>,
    <<<<"p","i","n">>, 5>>,
    <<<<"t","r","a","n","s","f","e","r">>, 3>>,
    <<<<"f","r","e","e">>, 3>>,
    <<<<"g","i","f","t">>, 3>>,
    <<<<"c","o","n","g","r","a","t","u","l","a","t","i","o","n","s">>, 2>>,
    <<<<"c","o","n","g","r","a","t","s">>, 2>>,
    <<<<"a","c","c","o","u","n","t">>, 3>>,
    <<<<"b","a","n","k">>, 2>>>>

\* the weight scam_indicators["otp"] is set to for this message
OtpWeight(normalized) ==
  IF /\ Contains(normalized, <<"o","t","p">>)
     /\ \/ Contains(normalized, <<"y","o","u","r">>)
        \/ Contains(normalized, <<"c","o","d","e">>)
        \/ Contains(normalized, <<"i","s">>)
        \/ Contains(normalized, <<"v","e","r","i","f","i","c","a","t","i","o","n">>)
    THEN 1 ELSE 3

\* scam_indicators[word], 0 for a word that is no key
IndicatorWeight(word, normalized) ==
  IF word = <<"o","t","p">> THEN OtpWeight(normalized)
  ELSE IF \E i \in DOMAIN scam_indicators : scam_indicators[i][1] = word
    THEN scam_indicators[CHOOSE i \in DOMAIN scam_indicators : scam_indicators[i][1] = word][2]
  ELSE 0

IsIndicator(word) ==
  word = <<"o","t","p">> \/ \E i \in DOMAIN scam_indicators : scam_indicators[i][1] = word

RECURSIVE SumWeights(_, _)
SumWeights(ws, normalized) ==
  IF ws = <<>> THEN 0
  ELSE IndicatorWeight(Head(ws), normalized) + SumWeights(Tail(ws), normalized)

\* the confidence without its cap
SmsConfidenceUncapped(score) == score

\* confidence = min(score, 10)
SmsConfidence(score) == Min2(score, 10)

\* the single word left with its score
SingleWordReductionNone(score) == score

\* the single-word reduction: score = max(score - 3, 0)
SingleWordReduction(score) == Max2(score - 3, 0)

\* the keyword and phrase-pattern accumulation, lines 299-348
SmsScore(content) ==
  LET normalized == SmsNormalize(content)
      words == Words(normalized)
      triggered == SelectSeq(words, IsIndicator)
      s1 == SumWeights(triggered, normalized)
      r1 == IF triggered /= <<>>
              THEN <<Reason("Suspicious words", JoinWith(triggered, <<",", " ">>), 0)>>
              ELSE <<>>
      win == LitLitThenDigits(normalized, <<"y","o","u">>, <<"w","o","n">>, 1)
      call == LitThenDigits(normalized, <<"c","a","l","l">>, 8)
      link == LitThenLit(normalized, <<"c","l","i","c","k">>, <<"h","t","t","p">>)
      acct == LitThenLit(normalized, <<"a","c","c","o","u","n","t">>, <<"v","e","r","i","f">>)
      gift == LitThenLit(normalized, <<"f","r","e","e">>, <<"g","i","f","t">>)
      bvn == LitThenLit(normalized, <<"y","o","u","r">>, <<"b","v","n">>)
      s2 == (IF win THEN 6 ELSE 0) + (IF call THEN 5 ELSE 0) + (IF link THEN 5 ELSE 0)
            + (IF acct THEN 4 ELSE 0) + (IF gift THEN 4 ELSE 0) + (IF bvn THEN 6 ELSE 0)
      r2 == (IF win THEN <<Reason("Winning announcement", <<>>, 0)>> ELSE <<>>)
            \o (IF call THEN <<Reason("Unknown number request", <<>>, 0)>> ELSE <<>>)
            \o (IF link THEN <<Reason("Suspicious link", <<>>, 0)>> ELSE <<>>)
            \o (IF acct THEN <<Reason("Account verification", <<>>, 0)>> ELSE <<>>)
            \o (IF gift THEN <<Reason("Free gift offer", <<>>, 0)>> ELSE <<>>)
            \o (IF bvn THEN <<Reason("BVN request", <<>>, 0)>> ELSE <<>>)
      single == Len(words) = 1 /\ words[1] \in {<<"c","o","n","g","r","a","t","u","l","a","t","i","o","n","s">>,
                                               <<"c","o","n","g","r","a","t","s">>}
      score == IF single THEN SingleWordReduction(s1 + s2) ELSE s1 + s2
      reasons == IF single THEN <<Reason("Single word - needs context", <<>>, 0)>>
                 ELSE r1 \o r2
  IN [content |-> content, scam |-> score >= 6, confidence |-> SmsConfidence(score),
      score |-> score, reasons |-> reasons]

\* improved_check_sms_scam with the whitelist of legitimate patterns left out
improved_check_sms_scam_no_whitelist(content) ==
  IF content = <<>>
    THEN [scam |-> FALSE, confidence |-> 0, reasons |-> <<>>]
  ELSE IF UssdFormatMatch(Strip(content))
    THEN [scam |-> FALSE, confidence |-> 0,
          reasons |-> <<Reason("USSD code detected", <<>>, 0)>>]
  ELSE SmsScore(content)

improved_check_sms_scam(content) ==
  IF content = <<>>
    THEN [scam |-> FALSE, confidence |-> 0, reasons |-> <<>>]
  ELSE IF UssdFormatMatch(Strip(content))
    THEN [scam |-> FALSE, confidence |-> 0,
          reasons |-> <<Reason("USSD code detected", <<>>, 0)>>]
  ELSE IF LegitimateMatch(SmsNormalize(content))
    THEN [scam |-> FALSE, confidence |-> 0,
          reasons |-> <<Reason("Legitimate communication pattern", <<>>, 0)>>]
  ELSE SmsScore(content)

\* the inputs: every concatenation of at most MaxSmsChunks pieces
SmsChunks ==
  <<<<" ">>,
    <<"\n">>,
    <<"!">>,
    <<"Y","o","u","r"," ","O","T","P"," ","i","s"," ","1","2","3","4">>,
    <<"h","e","l","l","o",","," ","h","o","w"," ","a","r","e"," ","y","o","u">>,
    <<"Y","o","u"," ","w","o","n"," ","$","1",",","0","0","0",",","0","0","0">>,
    <<"l","o","t","t","e","r","y">>,
    <<"y","o","u","r"," ","b","v","n">>,
    <<"C","o","n","g","r","a","t","u","l","a","t","i","o","n","s">>,
    <<"c","o","n","g","r","a","t","s">>,
    <<"c","a","l","l"," ","0","8","0","1","2","3","4","5","6","7","8">>,
    <<"*","1","2","3","#">>,
    <<"o","t","p">>,
    <<"v","e","r","i","f","i","c","a","t","i","o","n"," ","c","o","d","e",":"," ","5","5">>,
    <<"f","r","e","e"," ","g","i","f","t">>,
    <<"a","c","c","o","u","n","t"," ","v","e","r","i","f","y">>,
    <<"c","l","i","c","k"," ","h","t","t","p">>,
    <<"d","e","l","i","v","e","r","y"," ","a","r","r","i","v","i","n","g">>,
    <<"m","e","e","t","i","n","g"," ","a","t"," ","5">>>>
MaxSmsChunks == 3

\* the message of the documented example, and single words in some letter
\* cases between some punctuation
ExampleSms ==
  <<"C","o","n","g","r","a","t","u","l","a","t","i","o","n","s","!"," ",
    "Y","o","u"," ","w","o","n"," ","$","1",",","0","0","0",",","0","0","0"," ",
    "l","o","t","t","e","r","y","!"," ","C","a","l","l"," ","n","o","w",".">>
SmsExamples ==
  {ExampleSms,
   <<"C","O","N","G","R","A","T","S","!","!">>,
   <<".",".",".","c","o","n","g","r","a","t","u","l","a","t","i","o","n","s","?">>,
   <<"\"","C","o","n","g","r","a","t","s","\"">>,
   <<"*","c","o","n","g","r","a","t","s">>,
   <<"*","C","o","n","g","r","a","t","u","l","a","t","i","o","n","s","#">>}

SmsInputs ==
  SmsExamples \cup
  {Concat([i \in 1..Len(f) |-> SmsChunks[f[i]]]) :
     f \in UNION {[1..n -> DOMAIN SmsChunks] : n \in 0..MaxSmsChunks}}

(***************************************************************************)
(* Flat-file store and the community-report endpoints                      *)
(*                                                                         *)
(* Every handler is a sequence of steps, one per file access; the requests *)
(* of the uvicorn workers and threads interleave between the steps.        *)
(* Path.write_text opens the file with "w", which empties it, and then     *)
(* writes the text from offset 0: a reader between the two finds an empty  *)
(* file, and a second writer that opened in between leaves the longer      *)
(* text's tail behind the shorter one.                                     *)
(***************************************************************************)
MaxReports == 2     \* the reports stored at start: at most this many
MaxRequests == 2    \* the requests made: at most this many, all may overlap

Requests == 1..MaxRequests

\* the contents of the reports: a USSD code and an SMS text
ContentA == <<"*","9","0","1","#">>
ContentB == <<"*","7","7","*","p","i","n","#">>

\* len() of the strings that occur as a status
StrLen(str) ==
  CASE str = "Pending" -> 7
    [] str = "Verified" -> 8
    [] str = "Rejected" -> 8
    [] str = "Spam" -> 4

RECURSIVE SumSeq(_)
SumSeq(ns) == IF ns = <<>> THEN 0 ELSE Head(ns) + SumSeq(Tail(ns))

\* len(json.dumps(reports, indent=2)), counted in the characters of the
\* values; the keys and the punctuation add the same to every entry
JsonSize(reports) ==
  2 + SumSeq([i \in 1..Len(reports) |->
                Len(reports[i].content) + StrLen(reports[i].status) + 1])

\* a file that holds the JSON text of data
JsonFile(data) == [json |-> TRUE, data |-> data, size |-> JsonSize(data)]

\* a file whose bytes are no JSON text: empty, or one text's tail behind another
BrokenFile(size) == [json |-> FALSE, data |-> <<>>, size |-> size]

\* read_reports(): the parsed list, [] when json.loads raises
read_reports(file) == IF file.json THEN file.data ELSE <<>>

\* open(path, "w"): the file is emptied
OpenForWrite(file) == BrokenFile(0)

\* f.write(text) at offset 0 of a file that holds file.size bytes
WriteText(file, data) ==
  IF JsonSize(data) >= file.size THEN JsonFile(data) ELSE BrokenFile(file.size)

\* load_lines(path): the stripped non-empty lines
load_lines(lines) ==
  SelectSeq([i \in 1..Len(lines) |-> Strip(lines[i])], LAMBDA l : l /= <<>>)

\* load_safe_ussd() and load_blacklist_ussd(): the set of normalised lines
load_code_set(lines) == {normalize_ussd(l) : l \in SeqToSet(load_lines(lines))}

\* reports[index]["status"] = status
SetStatus(reports, index, status) ==
  [reports EXCEPT ![index + 1] = [@ EXCEPT !.status = status]]

\* data.index < 0 or data.index >= len(reports)
InvalidIndex(reports, index) == index < 0 \/ index >= Len(reports)

\* curated_codes.json: json.dumps of the list, counted as the brackets and,
\* per entry, its code and a separator (the other fields are the same length
\* in every entry of the model)
CuratedSize(codes) == 2 + SumSeq([i \in 1..Len(codes) |-> Len(codes[i].code) + 1])
CuratedFile(data) == [json |-> TRUE, data |-> data, size |-> CuratedSize(data)]

\* load_curated_codes(): the list, or [] when the text does not parse
load_curated_codes(file) == IF file.json THEN file.data ELSE <<>>

\* save_curated_codes(codes), the write after the truncating open
WriteCuratedText(file, data) ==
  IF CuratedSize(data) >= file.size THEN CuratedFile(data) ELSE BrokenFile(file.size)

\* any(normalize_code(c["code"]) == normalized_code for c in curated_codes)
IsCurated(curated, content) ==
  \E i \in DOMAIN curated : normalize_code(curated[i].code) = normalize_code(content)

\* "timestamp": datetime.datetime.now().isoformat() in the entries that the
\* handlers build (lines 517, 646, 682, 724, 841), as a call that returns
entry_timestamp_now == [raised |-> FALSE, value |-> "now"]

\* the same expression as the module evaluates it: datetime is the class that
\* line 17 imports over the module of line 9, the class has no attribute
\* datetime, and AttributeError is raised
entry_timestamp == [raised |-> TRUE, value |-> "AttributeError"]

\* the safe list with the code appended unless load_safe_ussd() holds it
\* (lines 654-657, 689-692, 731-734)
AppendSafe(lines, code) ==
  IF code \in load_code_set(lines) THEN lines ELSE Append(lines, code)

Idle == [pc |-> "idle"]

\* the request bodies the clients send; the status "Spam" stands for any
\* string that is none of Pending, Verified, Rejected
SubmitBodies == {[op |-> "submit_report", report_type |-> "ussd", content |-> ContentB]}
UpdateBodies ==
  {[op |-> "update_report_status", index |-> i, status |-> "Spam", action |-> "none"] :
     i \in 0..MaxReports}
  \cup {[op |-> "update_report_status", index |-> 0, status |-> "Verified",
         action |-> "add_safe"],
        [op |-> "update_report_status", index |-> 0, status |-> "Rejected",
         action |-> "add_blacklist"]}
IndexBodies(op) == {[op |-> op, index |-> i] : i \in -1..MaxReports}

\* the report lists that can be on disk when the service starts: every entry
\* as submit_report builds it, status "Pending"; USSD and SMS reports alternate
StartReport(i) ==
  IF i % 2 = 1
    THEN [report_type |-> "ussd", content |-> ContentA, status |-> "Pending"]
    ELSE [report_type |-> "sms", content |-> ContentB, status |-> "Pending"]
StartReports == {[i \in 1..n |-> StartReport(i)] : n \in 0..MaxReports}

\* the curated list on disk at start: empty, or holding the code of ContentA
StartCurated == {<<>>, <<[code |-> ContentA]>>}

NoCall == [pc |-> "idle"]

\* no statistics were printed
NotPrinted == [printed |-> FALSE, total |-> 0, messages |-> 0]

\* AutoSMSDetector.__init__: the two counters; messages counts the calls of
\* simulate_incoming_sms, and stats is what print_stats last reported
NewDetector ==
  [scam_messages_detected |-> 0, legitimate_messages_passed |-> 0,
   messages |-> 0, stats |-> NotPrinted]

\* the threads of the premium variant's server
MaxThreads == 2
Threads == 1..MaxThreads

\* the callers of the updater: the admin endpoints' threads and the cron job
MaxCallers == 2
Callers == 1..MaxCallers
\* no time: no update was recorded
NoTime == -1
\* data/last_update.txt
NoTimestamp == [exists |-> FALSE, time |-> NoTime]
Timestamp(t) == [exists |-> TRUE, time |-> t]
\* initialize_files(): stats_file.write_text("{}")
EmptyStats == [timestamp |-> NoTime, total_codes |-> 0]

\* the data directory of an updater that has never run
InitUpdaterFresh ==
  /\ clock = 0
  /\ last_update_file = NoTimestamp
  /\ stats_file = EmptyStats
  /\ updater_calls = [c \in Callers |-> NoCall]
  /\ last_done = NoTime

\* users_db = {} when the premium variant starts
InitPremium ==
  /\ today = 0
  /\ user_objects = <<>>
  /\ users_db = 0
  /\ premium_requests = [p \in Threads |-> NoCall]

\* ussd_cache.json as line 53 creates it: "{}"
EmptyCache == [c \in {} |-> 0]

\* the service has started with these reports and curated codes on disk
InitWith(reports, curated) ==
  /\ ussd_call = NoCall
  /\ sms_call = NoCall
  /\ reports_file = JsonFile(reports)
  /\ reports_at_start = reports
  /\ reports_before = reports
  /\ curated_file = CuratedFile(curated)
  /\ safe_file = <<>>
  /\ blacklist_file = <<>>
  /\ requests = [p \in Requests |-> Idle]
  /\ cache_file = EmptyCache
  /\ check_call = NoCall
  /\ read_call = NoCall
  /\ InitPremium
  /\ InitUpdaterFresh
  /\ compare_call = NoCall
  /\ detector = NewDetector

\* a first start: lines 48-57 create the files, "[]" for the two JSON lists
Init == InitWith(<<>>, <<>>)

\* a start with the data directory of an earlier run
InitReports == \E rs \in StartReports : \E curated \in StartCurated : InitWith(rs, curated)

\* a caller hands a code to pattern_score_ussd and receives (score, reasons)
CallPatternScoreUssd ==
  /\ ussd_call = NoCall
  /\ \E code \in UssdInputs :
       LET r == pattern_score_ussd(code)
       IN ussd_call' = [pc |-> "returned", code |-> code,
                        score |-> r.score, reasons |-> r.reasons]
  /\ UNCHANGED <<sms_call, store_vars, service_vars>>

\* the caller has used the result; the scorer keeps nothing of the call
ReturnUssd ==
  /\ ussd_call /= NoCall
  /\ ussd_call' = NoCall
  /\ UNCHANGED <<sms_call, store_vars, service_vars>>

NextUssd == CallPatternScoreUssd \/ ReturnUssd

SpecUssd == Init /\ [][NextUssd]_vars

\* a caller hands a text to improved_check_sms_scam and receives the result
CallImprovedCheckSmsScam ==
  /\ sms_call = NoCall
  /\ \E content \in SmsInputs :
       sms_call' = [pc |-> "returned", content |-> content,
                    result |-> improved_check_sms_scam(content)]
  /\ UNCHANGED <<ussd_call, store_vars, service_vars>>

\* the caller has used the result; the scorer keeps nothing of the call
ReturnSms ==
  /\ sms_call /= NoCall
  /\ sms_call' = NoCall
  /\ UNCHANGED <<ussd_call, store_vars, service_vars>>

NextSms == CallImprovedCheckSmsScam \/ ReturnSms

SpecSms == Init /\ [][NextSms]_vars

(***************************************************************************)
(* The handlers, step by step                                              *)
(***************************************************************************)
\* a request arrives at an idle slot; requests are numbered in the order of
\* arrival
Arrives(p) == requests[p] = Idle /\ \A q \in Requests : q < p => requests[q] /= Idle

\* the request in a handler, with the handler's locals
Running(body, pc, reports) ==
  [pc |-> pc, body |-> body, reports |-> reports, codes |-> {}, resp |-> 0]

\* the handler has returned or raised: its locals are gone, the response is sent
Answered(body, status) ==
  [pc |-> "done", body |-> body, reports |-> <<>>, codes |-> {}, resp |-> status]

Respond(p, status) ==
  requests' = [requests EXCEPT ![p] = Answered(requests[p].body, status)]

Goto(p, pc) == requests' = [requests EXCEPT ![p] = [@ EXCEPT !.pc = pc]]

At(p, op, pc) ==
  /\ requests[p] /= Idle
  /\ requests[p].body.op = op
  /\ requests[p].pc = pc

\* submit_report: read_reports() and geocode_location() succeed; building the
\* entry evaluates datetime.datetime.now(), and datetime is the class that
\* line 17 imports over the module of line 9, so AttributeError is raised
\* before reports.append and write_reports: the response is 500
SubmitReport(p, body) ==
  /\ Arrives(p)
  /\ requests' = [requests EXCEPT ![p] = Answered(body, 500)]
  /\ UNCHANGED <<reports_file, curated_file, safe_file, blacklist_file, reports_at_start, reports_before, scorer_vars, service_vars>>

\* update_report_status, lines 532-535
UpdateRead(p, body) ==
  /\ Arrives(p)
  /\ LET reports == read_reports(reports_file)
     IN requests' = [requests EXCEPT ![p] =
          IF InvalidIndex(reports, body.index)
            THEN Answered(body, 400)
            ELSE Running(body,
                         CASE body.action = "add_safe" -> "load_safe"
                           [] body.action = "add_blacklist" -> "load_blacklist"
                           [] OTHER -> "open",
                         SetStatus(reports, body.index, body.status))]
  /\ UNCHANGED <<reports_file, curated_file, safe_file, blacklist_file, reports_at_start, reports_before, scorer_vars, service_vars>>

\* the code that lines 537 and 543 take from the report
ReportCode(p) == normalize_ussd(requests[p].reports[requests[p].body.index + 1].content)

\* update_report_status, line 538: safe = load_safe_ussd()
UpdateLoadSafe(p) ==
  /\ At(p, "update_report_status", "load_safe")
  /\ requests' = [requests EXCEPT ![p] =
                    [@ EXCEPT !.codes = load_code_set(safe_file), !.pc = "append_safe"]]
  /\ UNCHANGED <<reports_file, curated_file, safe_file, blacklist_file, reports_at_start, reports_before, scorer_vars, service_vars>>

\* update_report_status, lines 539-541: the code is appended if it was not read
UpdateAppendSafe(p) ==
  /\ At(p, "update_report_status", "append_safe")
  /\ safe_file' = IF ReportCode(p) \in requests[p].codes
                    THEN safe_file ELSE Append(safe_file, ReportCode(p))
  /\ Goto(p, "open")
  /\ UNCHANGED <<reports_file, curated_file, blacklist_file, reports_at_start, reports_before, scorer_vars, service_vars>>

\* update_report_status, line 544: bl = load_blacklist_ussd()
UpdateLoadBlacklist(p) ==
  /\ At(p, "update_report_status", "load_blacklist")
  /\ requests' = [requests EXCEPT ![p] =
                    [@ EXCEPT !.codes = load_code_set(blacklist_file),
                              !.pc = "append_blacklist"]]
  /\ UNCHANGED <<reports_file, curated_file, safe_file, blacklist_file, reports_at_start, reports_before, scorer_vars, service_vars>>

\* update_report_status, lines 545-547
UpdateAppendBlacklist(p) ==
  /\ At(p, "update_report_status", "append_blacklist")
  /\ blacklist_file' = IF ReportCode(p) \in requests[p].codes
                         THEN blacklist_file ELSE Append(blacklist_file, ReportCode(p))
  /\ Goto(p, "open")
  /\ UNCHANGED <<reports_file, curated_file, safe_file, reports_at_start, reports_before, scorer_vars, service_vars>>

\* approve_report, lines 703-737. For a code that is not yet curated the
\* handler builds new_code with its timestamp, which raises (entry_timestamp)
\* before anything is saved: the response is 500. For a curated code only the
\* status is set.
ApproveRead(p, body) ==
  /\ Arrives(p)
  /\ LET reports == read_reports(reports_file)
         index == body.index
         report == reports[index + 1]
         curated_codes == load_curated_codes(curated_file)
         refused == InvalidIndex(reports, index) \/ report.report_type /= "ussd"
         is_new == ~refused /\ ~IsCurated(curated_codes, report.content)
         adds == is_new /\ ~entry_timestamp.raised
     IN /\ requests' = [requests EXCEPT ![p] =
             IF refused THEN Answered(body, 400)
             ELSE IF is_new /\ entry_timestamp.raised THEN Answered(body, 500)
             ELSE Running(body, "open", SetStatus(reports, index, "Verified"))]
        /\ curated_file' =
             IF adds THEN CuratedFile(Append(curated_codes, [code |-> report.content]))
                     ELSE curated_file
        /\ safe_file' =
             IF adds THEN AppendSafe(safe_file, normalize_code(report.content))
                     ELSE safe_file
  /\ UNCHANGED <<reports_file, blacklist_file, reports_at_start, reports_before, scorer_vars, service_vars>>

\* reject_report, lines 746-751
RejectRead(p, body) ==
  /\ Arrives(p)
  /\ LET reports == read_reports(reports_file)
     IN requests' = [requests EXCEPT ![p] =
          IF InvalidIndex(reports, body.index) THEN Answered(body, 400)
          ELSE Running(body, "open", SetStatus(reports, body.index, "Rejected"))]
  /\ UNCHANGED <<reports_file, curated_file, safe_file, blacklist_file, reports_at_start, reports_before, scorer_vars, service_vars>>

Moderation == {"update_report_status", "approve_report", "reject_report"}

\* write_reports(reports), first half: write_text opens the file for writing
WriteReportsOpen(p) ==
  /\ requests[p] /= Idle
  /\ requests[p].body.op \in Moderation
  /\ requests[p].pc = "open"
  /\ reports_file' = OpenForWrite(reports_file)
  /\ reports_before' = IF reports_file.json THEN reports_file.data ELSE reports_before
  /\ Goto(p, "write")
  /\ UNCHANGED <<curated_file, safe_file, blacklist_file, reports_at_start, scorer_vars, service_vars>>

\* write_reports(reports), second half: the text is written; the handler returns
WriteReportsText(p) ==
  /\ requests[p] /= Idle
  /\ requests[p].body.op \in Moderation
  /\ requests[p].pc = "write"
  /\ reports_file' = WriteText(reports_file, requests[p].reports)
  /\ Respond(p, 200)
  /\ UNCHANGED <<curated_file, safe_file, blacklist_file, reports_at_start, reports_before, scorer_vars, service_vars>>

NextReports ==
  \/ \E p \in Requests : \E b \in SubmitBodies : SubmitReport(p, b)
  \/ \E p \in Requests : \E b \in UpdateBodies : UpdateRead(p, b)
  \/ \E p \in Requests : UpdateLoadSafe(p)
  \/ \E p \in Requests : UpdateAppendSafe(p)
  \/ \E p \in Requests : UpdateLoadBlacklist(p)
  \/ \E p \in Requests : UpdateAppendBlacklist(p)
  \/ \E p \in Requests : \E b \in IndexBodies("approve_report") : ApproveRead(p, b)
  \/ \E p \in Requests : \E b \in IndexBodies("reject_report") : RejectRead(p, b)
  \/ \E p \in Requests : WriteReportsOpen(p)
  \/ \E p \in Requests : WriteReportsText(p)

SpecReports == InitReports /\ [][NextReports]_vars

(***************************************************************************)
(* /check-ussd                                                             *)
(***************************************************************************)
\* TRUSTED_USSD_SOURCE_URLS = []
TRUSTED_USSD_SOURCE_URLS == <<>>

\* online_verify_ussd(code, urls): found[i] says that urls[i] answered 200
\* with a text that holds the lower-cased normalised code; the first such URL
\* is the source
online_verify_ussd(code, urls, found) ==
  LET use == IF urls = <<>> THEN TRUSTED_USSD_SOURCE_URLS ELSE urls
      hits == {i \in DOMAIN use : i \in DOMAIN found /\ found[i]}
  IN IF use = <<>> \/ hits = {}
       THEN [v |-> FALSE, src |-> "None"]
       ELSE [v |-> TRUE, src |-> use[CHOOSE i \in hits : \A j \in hits : i <= j]]

\* cache[norm] = {...}
CachePut(cache, norm, entry) ==
  [c \in DOMAIN cache \cup {norm} |-> IF c = norm THEN entry ELSE cache[c]]

\* the entry lines 449 and 463 store
CacheEntry(score, reasons, src) ==
  [safe |-> TRUE, score |-> score, reasons |-> reasons,
   verified_online |-> TRUE, source |-> src]

\* if norm in cache
CacheHitNever(cache, norm) == FALSE
CacheHit(cache, norm) == norm \in DOMAIN cache

\* the blacklist test after the whitelist of known safe codes
InBlacklistUnlessWhitelisted(norm, blacklist) ==
  norm \in blacklist /\ norm \notin KNOWN_SAFE_CODES

\* if norm in blacklist
InBlacklist(norm, blacklist) == norm \in blacklist

\* safe = score <= 5 instead
IsSafeScoreAtMost5(score) == score <= 5

\* safe = score < 5
IsSafeScore(score) == score < 5

\* a /check-ussd response body, with the return statement that built it
Response(branch, norm, safe, score, reasons, verified_online, source, cached) ==
  [branch |-> branch, code |-> norm, safe |-> safe, score |-> score,
   reasons |-> reasons, verified_online |-> verified_online,
   source |-> source, cached |-> cached]

\* check_ussd(code, full_mode), lines 427-467: the status, the response body
\* and the cache the handler leaves. online is what is_online() returns, found
\* what the trusted sources answer.
check_ussd(code, full_mode, online, found, safe_lines, blacklist_lines, cache) ==
  LET norm == normalize_ussd(code)
      safe_set == load_code_set(safe_lines)
      blacklist == load_code_set(blacklist_lines)
      scored == pattern_score_ussd(norm)
      online_result == online_verify_ussd(norm, <<>>, found)
      verified == full_mode /\ online /\ online_result.v
      src == online_result.src
      verified_reasons == Append(scored.reasons, Reason("Verified by", src, 0))
  IN IF code = <<>>
       THEN [status |-> 400, body |-> "USSD code required", cache |-> cache]
     ELSE IF InBlacklist(norm, blacklist)
       THEN [status |-> 200, cache |-> cache,
             body |-> Response("blacklisted", norm, FALSE, 10,
                               <<Reason("Blacklisted", <<>>, 0)>>, FALSE, "absent", FALSE)]
     ELSE IF CacheHit(cache, norm)
       THEN [status |-> 200, cache |-> cache,
             body |-> Response("cached", norm, cache[norm].safe, cache[norm].score,
                               cache[norm].reasons, cache[norm].verified_online,
                               cache[norm].source, TRUE)]
     ELSE IF norm \in safe_set
       THEN [status |-> 200,
             cache |-> IF verified
                         THEN CachePut(cache, norm,
                                       CacheEntry(scored.score, scored.reasons, src))
                         ELSE cache,
             body |-> Response("safe_list", norm, TRUE, scored.score,
                               Append(scored.reasons, Reason("In safe list", <<>>, 0)),
                               verified, IF verified THEN src ELSE "absent", FALSE)]
     ELSE IF verified
       THEN [status |-> 200,
             cache |-> CachePut(cache, norm,
                                CacheEntry(scored.score, verified_reasons, src)),
             body |-> Response("verified", norm, TRUE, scored.score, verified_reasons,
                               TRUE, src, TRUE)]
     ELSE [status |-> 200, cache |-> cache,
           body |-> Response("scored", norm, IsSafeScore(scored.score), scored.score,
                             scored.reasons, FALSE, "None", FALSE)]

\* the codes the clients ask about
CheckCodes ==
  {<<>>, <<" ", " ">>,
   <<"*","9","0","1","#">>, <<" ","*","9","0","1","#"," ">>,
   <<"*","7","7","*","p","i","n","#">>,
   <<"*","2","*","2","#">>, <<" ","*","2"," ","*","2","#">>,
   <<"*","9","0","1","*","a","c","c","o","u","n","t","#">>,
   <<"*","5","5","5","5","5","#">>}

\* the safe list and the blacklist on disk at start: lines as
\* update_report_status appends them (lines 541 and 547), a reported code each
StartSafeLines ==
  {<<>>,
   <<<<"*","5","5","5","5","5","#">>>>,
   <<<<"*","7","7","*","p","i","n","#">>, <<"*","2","*","2","#">>>>,
   <<<<"*","9","0","1","#">>>>}
StartBlacklistLines ==
  {<<>>,
   <<<<"*","7","7","*","p","i","n","#">>, <<"*","9","0","1","#">>>>,
   <<<<"*","5","5","5","5","5","#">>>>}

\* the entry of a code as line 463 stores it after a source has verified it
VerifiedEntry(code) ==
  CacheEntry(pattern_score_ussd(code).score,
             Append(pattern_score_ussd(code).reasons, Reason("Verified by", "src", 0)),
             "src")

\* the caches on disk at start: none, or entries of an earlier run
StartCaches ==
  {EmptyCache,
   [c \in {<<"*","2","*","2","#">>} |-> VerifiedEntry(c)],
   [c \in {<<"*","5","5","5","5","5","#">>, <<"*","7","7","*","p","i","n","#">>}
      |-> VerifiedEntry(c)],
   [c \in {<<"*","9","0","1","#">>} |-> VerifiedEntry(c)]}

\* a start with the lists and the cache of an earlier run
InitCheck ==
  /\ ussd_call = NoCall
  /\ sms_call = NoCall
  /\ reports_file = JsonFile(<<>>)
  /\ reports_at_start = <<>>
  /\ reports_before = <<>>
  /\ curated_file = CuratedFile(<<>>)
  /\ safe_file \in StartSafeLines
  /\ blacklist_file \in StartBlacklistLines
  /\ requests = [p \in Requests |-> Idle]
  /\ cache_file \in StartCaches
  /\ check_call = NoCall
  /\ read_call = NoCall
  /\ InitPremium
  /\ InitUpdaterFresh
  /\ compare_call = NoCall
  /\ detector = NewDetector

\* GET /check-ussd: the handler reads the three files and answers. It writes
\* the cache only after a trusted source has verified the code, which with an
\* empty TRUSTED_USSD_SOURCE_URLS no request does, so the handler is one step.
CheckUssd ==
  /\ check_call = NoCall
  /\ \E code \in CheckCodes : \E full_mode \in BOOLEAN : \E online \in BOOLEAN :
       LET r == check_ussd(code, full_mode, online, <<>>, safe_file, blacklist_file,
                           cache_file)
       IN /\ check_call' = [pc |-> "returned", code |-> code, full_mode |-> full_mode,
                            status |-> r.status, body |-> r.body,
                            cache_before |-> cache_file]
          /\ cache_file' = r.cache
  /\ UNCHANGED <<scorer_vars, store_vars, read_vars, variant_vars>>

\* the client has the response
ReturnCheck ==
  /\ check_call /= NoCall
  /\ check_call' = NoCall
  /\ UNCHANGED <<cache_file, scorer_vars, store_vars, read_vars, variant_vars>>

NextCheck == CheckUssd \/ ReturnCheck

SpecCheck == InitCheck /\ [][NextCheck]_vars

(***************************************************************************)
(* Manual curation: /curation/add and /curation/delete                     *)
(***************************************************************************)
CodeLower == <<"*","7","*","a","#">>
CodeUpper == <<"*","7","*","A","#">>
CodeSpaced == <<" ","*","9","0","1","#">>
CodeAbsent == <<"*","9","#">>

\* the curated lists on disk at start; an entry holds the code as the request
\* that added it gave it (line 639: "code": request.code)
StartCuratedLists ==
  {<<>>,
   <<[code |-> ContentA]>>,
   <<[code |-> ContentA], [code |-> CodeLower]>>,
   <<[code |-> CodeLower], [code |-> ContentA], [code |-> CodeSpaced]>>}

DeleteBodies ==
  {[op |-> "delete_curated_code", code |-> c] : c \in {ContentA, CodeUpper, CodeLower, CodeAbsent}}
AddBodies ==
  {[op |-> "add_curated_code", code |-> c] : c \in {CodeSpaced, CodeAbsent}}

InitCuration == \E curated \in StartCuratedLists : InitWith(<<>>, curated)

\* [c for c in curated_codes if c["code"] != request.code]
FilterCodesExact(curated_codes, code) ==
  SelectSeq(curated_codes, LAMBDA c : c.code /= code)

\* [c for c in curated_codes if normalize_code(c["code"]) != normalized_target]
FilterCodes(curated_codes, code) ==
  SelectSeq(curated_codes, LAMBDA c : normalize_code(c.code) /= normalize_code(code))

\* delete_curated_code, lines 760-767: load, filter, 404 when nothing matched
DeleteRead(p, body) ==
  /\ Arrives(p)
  /\ LET curated_codes == load_curated_codes(curated_file)
         filtered_codes == FilterCodes(curated_codes, body.code)
     IN requests' = [requests EXCEPT ![p] =
          IF Len(filtered_codes) = Len(curated_codes)
            THEN Answered(body, 404)
            ELSE [pc |-> "open", body |-> body, curated_codes |-> curated_codes,
                  filtered_codes |-> filtered_codes, resp |-> 0]]
  /\ UNCHANGED <<reports_file, curated_file, safe_file, blacklist_file, reports_at_start, reports_before, scorer_vars, service_vars>>

\* the handlers that end with save_curated_codes, and the list each saves
CurationWriters == {"delete_curated_code", "bulk_add_codes", "import_codes_from_file"}
SavedCodes(p) ==
  IF requests[p].body.op = "delete_curated_code"
    THEN requests[p].filtered_codes ELSE requests[p].curated_codes

\* save_curated_codes(codes), first half: write_text opens the file
SaveCuratedOpen(p) ==
  /\ requests[p] /= Idle
  /\ requests[p].body.op \in CurationWriters
  /\ requests[p].pc = "open"
  /\ curated_file' = OpenForWrite(curated_file)
  /\ Goto(p, "write")
  /\ UNCHANGED <<reports_file, safe_file, blacklist_file, reports_at_start, reports_before, scorer_vars, service_vars>>

\* save_curated_codes(codes), second half, and the return that follows it;
\* the request keeps what it loaded and what it saved
SaveCuratedText(p) ==
  /\ requests[p] /= Idle
  /\ requests[p].body.op \in CurationWriters
  /\ requests[p].pc = "write"
  /\ curated_file' = WriteCuratedText(curated_file, SavedCodes(p))
  /\ requests' = [requests EXCEPT ![p] = [@ EXCEPT !.pc = "done", !.resp = 200]]
  /\ UNCHANGED <<reports_file, safe_file, blacklist_file, reports_at_start, reports_before, scorer_vars, service_vars>>

\* add_curated_code, lines 629-660: 400 for a code that exists; for a new code
\* the entry is built with its timestamp, which raises (entry_timestamp)
\* before anything is saved: 500
AddCuratedCode(p, body) ==
  /\ Arrives(p)
  /\ LET curated_codes == load_curated_codes(curated_file)
         existing == IsCurated(curated_codes, body.code)
         adds == ~existing /\ ~entry_timestamp.raised
     IN /\ requests' = [requests EXCEPT ![p] =
             IF existing THEN Answered(body, 400)
             ELSE IF entry_timestamp.raised THEN Answered(body, 500)
             ELSE Answered(body, 200)]
        /\ curated_file' =
             IF adds THEN CuratedFile(Append(curated_codes, [code |-> body.code]))
                     ELSE curated_file
        /\ safe_file' =
             IF adds THEN AppendSafe(safe_file, normalize_code(body.code)) ELSE safe_file
  /\ UNCHANGED <<reports_file, blacklist_file, reports_at_start, reports_before, scorer_vars, service_vars>>

NextCuration ==
  \/ \E p \in Requests : \E b \in DeleteBodies : DeleteRead(p, b)
  \/ \E p \in Requests : SaveCuratedOpen(p)
  \/ \E p \in Requests : SaveCuratedText(p)
  \/ \E p \in Requests : \E b \in AddBodies : AddCuratedCode(p, b)

SpecCuration == InitCuration /\ [][NextCuration]_vars

(***************************************************************************)
(* Manual curation: /curation/bulk-add and /curation/import-file, and the  *)
(* moderation and curation endpoints served together                       *)
(***************************************************************************)
\* an entry of a bulk-add body or of an imported JSON file: a dictionary with
\* a "code"; is_str is FALSE when the value is no string (a number, null)
CodeData(code) == [code |-> code, is_str |-> TRUE]
Malformed == [code |-> <<>>, is_str |-> FALSE]

\* the lists that the clients send
EntryLists ==
  {<<CodeData(ContentA), CodeData(ContentA)>>,
   <<CodeData(ContentA), Malformed>>,
   <<CodeData(CodeAbsent), CodeData(CodeAbsent)>>,
   <<CodeData(<<>>), CodeData(CodeSpaced)>>}

BulkBodies == {[op |-> "bulk_add_codes", codes |-> es] : es \in EntryLists}
ImportBodies == {[op |-> "import_codes_from_file", codes |-> es] : es \in EntryLists}

\* the locals of the two loops: the list in memory, the safe list on disk,
\* and whether an exception has ended the loop
LoopState(codes, safe) == [raised |-> FALSE, codes |-> codes, safe |-> safe]

\* import_codes_from_file with every entry appended unchecked
import_step_appends(st, code_data) ==
  [st EXCEPT !.codes = Append(@, [code |-> code_data.code])]

\* bulk_add_codes, lines 669-694: one pass of the loop. normalize_code raises
\* for a code that is no string, a curated code is skipped, and a new code's
\* entry is built with its timestamp, appended and added to the safe list
bulk_step(st, code_data) ==
  IF ~code_data.is_str THEN [st EXCEPT !.raised = TRUE]
  ELSE IF IsCurated(st.codes, code_data.code) THEN st
  ELSE IF entry_timestamp.raised THEN [st EXCEPT !.raised = TRUE]
  ELSE [st EXCEPT !.codes = Append(@, [code |-> code_data.code]),
                  !.safe = AppendSafe(@, normalize_code(code_data.code))]

\* import_codes_from_file, lines 831-845: one pass of the loop. An empty
\* normalised code is skipped too, and nothing is added to the safe list
import_step(st, code_data) ==
  IF ~code_data.is_str THEN [st EXCEPT !.raised = TRUE]
  ELSE IF normalize_code(code_data.code) = <<>> THEN st
  ELSE IF IsCurated(st.codes, code_data.code) THEN st
  ELSE IF entry_timestamp.raised THEN [st EXCEPT !.raised = TRUE]
  ELSE [st EXCEPT !.codes = Append(@, [code |-> code_data.code])]

\* the loops: an exception ends them and leaves what was done before it
RECURSIVE bulk_loop(_, _)
bulk_loop(st, entries) ==
  IF entries = <<>> \/ st.raised THEN st
  ELSE bulk_loop(bulk_step(st, Head(entries)), Tail(entries))

RECURSIVE import_loop(_, _)
import_loop(st, entries) ==
  IF entries = <<>> \/ st.raised THEN st
  ELSE import_loop(import_step(st, Head(entries)), Tail(entries))

\* the request in bulk_add_codes or import_codes_from_file, before the save
Saving(body, loaded, codes) ==
  [pc |-> "open", body |-> body, loaded |-> loaded, curated_codes |-> codes, resp |-> 0]

\* bulk_add_codes, lines 665-694: the exception of a pass is not caught and
\* the response is 500; what the passes before it appended to the safe list
\* stays appended
BulkAdd(p, body) ==
  /\ Arrives(p)
  /\ LET loaded == load_curated_codes(curated_file)
         st == bulk_loop(LoopState(loaded, safe_file), body.codes)
     IN /\ requests' = [requests EXCEPT ![p] =
             IF st.raised THEN Answered(body, 500) ELSE Saving(body, loaded, st.codes)]
        /\ safe_file' = st.safe
  /\ UNCHANGED <<reports_file, curated_file, blacklist_file, reports_at_start, reports_before, scorer_vars, service_vars>>

\* import_codes_from_file, lines 826-851: line 850 catches the exception of a
\* pass and the response is 400
ImportFile(p, body) ==
  /\ Arrives(p)
  /\ LET loaded == load_curated_codes(curated_file)
         st == import_loop(LoopState(loaded, safe_file), body.codes)
     IN requests' = [requests EXCEPT ![p] =
          IF st.raised THEN Answered(body, 400) ELSE Saving(body, loaded, st.codes)]
  /\ UNCHANGED <<reports_file, curated_file, safe_file, blacklist_file, reports_at_start, reports_before, scorer_vars, service_vars>>

\* the curated lists on disk at start, no code twice
StartCuratedDistinct ==
  {<<>>, <<[code |-> ContentA]>>, <<[code |-> ContentA], [code |-> CodeLower]>>}

\* the reports on disk at start: a USSD report at index 0, an SMS report at 1
InitAdmin ==
  \E rs \in StartReports : \E curated \in StartCuratedDistinct :
     Len(rs) = MaxReports /\ InitWith(rs, curated)

\* the requests of the moderator and the curator: for each endpoint a request
\* that succeeds and the requests that fail
AdminUpdateBodies == {b \in UpdateBodies : b.index \in {0, MaxReports}}
AdminIndexBodies(op) == {b \in IndexBodies(op) : b.index \in {0, 1, MaxReports}}
AdminDeleteBodies == {b \in DeleteBodies : b.code \in {ContentA, CodeAbsent}}

NextAdmin ==
  \/ \E p \in Requests : \E b \in AdminUpdateBodies : UpdateRead(p, b)
  \/ \E p \in Requests : UpdateLoadSafe(p)
  \/ \E p \in Requests : UpdateAppendSafe(p)
  \/ \E p \in Requests : UpdateLoadBlacklist(p)
  \/ \E p \in Requests : UpdateAppendBlacklist(p)
  \/ \E p \in Requests : \E b \in AdminIndexBodies("approve_report") : ApproveRead(p, b)
  \/ \E p \in Requests : \E b \in AdminIndexBodies("reject_report") : RejectRead(p, b)
  \/ \E p \in Requests : WriteReportsOpen(p)
  \/ \E p \in Requests : WriteReportsText(p)
  \/ \E p \in Requests : \E b \in AdminDeleteBodies : DeleteRead(p, b)
  \/ \E p \in Requests : SaveCuratedOpen(p)
  \/ \E p \in Requests : SaveCuratedText(p)
  \/ \E p \in Requests : \E b \in AddBodies : AddCuratedCode(p, b)
  \/ \E p \in Requests : \E b \in BulkBodies : BulkAdd(p, b)
  \/ \E p \in Requests : \E b \in ImportBodies : ImportFile(p, b)

SpecAdmin == InitAdmin /\ [][NextAdmin]_vars

(***************************************************************************)
(* The readers of the file-backed collections, with the files they can     *)
(* find: missing, unreadable (open or read raises: permissions, a          *)
(* directory, bytes that do not decode), malformed (the text is not JSON)  *)
(* or holding content.                                                     *)
(***************************************************************************)
LineLists ==
  {<<>>,
   <<<<"*","9","0","1","#">>>>,
   <<<<" ","*","9","0","1","#"," ">>, <<" ">>, <<"*","7","*","a","#">>>>,
   <<<<"#"," ","u","r","l","s">>, <<"h","t","t","p",":","/","/","x">>>>}

JsonValues ==
  {[kind |-> "list", items |-> <<>>],
   [kind |-> "list", items |-> <<[code |-> ContentA]>>],
   [kind |-> "list", items |-> <<[code |-> CodeLower], [code |-> ContentA]>>],
   [kind |-> "dict", items |-> <<[code |-> ContentA]>>]}

TextFiles ==
  {[cond |-> "missing", content |-> <<>>], [cond |-> "unreadable", content |-> <<>>]}
  \cup {[cond |-> "ok", content |-> lines] : lines \in LineLists}

JsonFiles ==
  {[cond |-> c, content |-> <<>>] : c \in {"missing", "unreadable", "malformed"}}
  \cup {[cond |-> "ok", content |-> v] : v \in JsonValues}

TextReaders == {"load_lines", "load_existing_codes", "get_trusted_sources", "fetch_from_source"}
JsonReaders == {"read_reports", "read_ussd_cache", "load_curated_codes",
                "fetch_from_source_json", "load_cache"}

Returns(value) == [raised |-> FALSE, value |-> value]
Raises == [raised |-> TRUE, value |-> "exception"]

\* AutoUpdater.normalize_ussd
updater_normalize_ussd(code) ==
  IF code = <<>> THEN <<>> ELSE Upper(RemoveSpaces(Strip(code)))

\* app.load_lines(path): try ... except: return []
load_lines_of(file) ==
  Returns(IF file.cond = "ok" THEN load_lines(file.content) ELSE <<>>)

\* read_reports(), read_ussd_cache(), load_curated_codes(), and
\* BankVerification.load_cache(): try: json.loads(...) except: the default
read_json_of(file, default) ==
  Returns(IF file.cond = "ok" THEN file.content ELSE default)

\* AutoUpdater.load_existing_codes(): exists() guards the open, nothing
\* guards the read
load_existing_codes_of(file) ==
  CASE file.cond = "missing" -> Returns({})
    [] file.cond = "unreadable" -> Raises
    [] OTHER -> Returns({updater_normalize_ussd(Strip(l)) : l \in SeqToSet(load_lines(file.content))})

\* AutoUpdater.get_trusted_sources(), the manual sources (lines 48-53):
\* exists() guards the open, nothing guards the read
manual_sources_of(file) ==
  CASE file.cond = "missing" -> Returns(<<>>)
    [] file.cond = "unreadable" -> Raises
    [] OTHER -> Returns(SelectSeq(load_lines(file.content), LAMBDA l : ~StartsWith(l, <<"#">>)))

\* AutoUpdater.fetch_from_source(url) for a file:// text source: every
\* exception is caught and [] returned
fetch_text_of(file) ==
  Returns(IF file.cond = "ok" THEN load_lines(file.content) ELSE <<>>)

\* AutoUpdater.fetch_from_source(url) for a file:// JSON source
fetch_json_of(file) ==
  Returns(IF file.cond = "ok" /\ file.content.kind = "list"
            THEN [i \in 1..Len(file.content.items) |-> file.content.items[i].code]
            ELSE <<>>)

EmptyList == [kind |-> "list", items |-> <<>>]
EmptyDict == [kind |-> "dict", items |-> <<>>]

\* what the reader does with the file it finds
ReadOutcome(reader, file) ==
  CASE reader = "load_lines" -> load_lines_of(file)
    [] reader = "load_existing_codes" -> load_existing_codes_of(file)
    [] reader = "get_trusted_sources" -> manual_sources_of(file)
    [] reader = "fetch_from_source" -> fetch_text_of(file)
    [] reader = "fetch_from_source_json" -> fetch_json_of(file)
    [] reader \in {"read_reports", "load_curated_codes"} -> read_json_of(file, EmptyList)
    [] reader \in {"read_ussd_cache", "load_cache"} -> read_json_of(file, EmptyDict)

\* the empty default of the reader
EmptyDefault(reader) ==
  CASE reader = "load_existing_codes" -> {}
    [] reader \in {"read_reports", "load_curated_codes"} -> EmptyList
    [] reader \in {"read_ussd_cache", "load_cache"} -> EmptyDict
    [] OTHER -> <<>>

\* a reader is called and finds its file in some condition
ReadCall ==
  /\ read_call = NoCall
  /\ \/ \E reader \in TextReaders : \E file \in TextFiles :
          read_call' = [pc |-> "called", reader |-> reader, file |-> file]
     \/ \E reader \in JsonReaders : \E file \in JsonFiles :
          read_call' = [pc |-> "called", reader |-> reader, file |-> file]
  /\ UNCHANGED <<scorer_vars, store_vars, check_vars, variant_vars>>

\* the reader returns a value or raises
ReadFinish ==
  /\ read_call.pc = "called"
  /\ read_call' = [pc |-> "finished", reader |-> read_call.reader, file |-> read_call.file,
                   outcome |-> ReadOutcome(read_call.reader, read_call.file)]
  /\ UNCHANGED <<scorer_vars, store_vars, check_vars, variant_vars>>

\* the caller has the value or the exception
ReadReturn ==
  /\ read_call.pc = "finished"
  /\ read_call' = NoCall
  /\ UNCHANGED <<scorer_vars, store_vars, check_vars, variant_vars>>

NextReaders == ReadCall \/ ReadFinish \/ ReadReturn

SpecReaders == Init /\ [][NextReaders]_vars

(***************************************************************************)
(* The premium variant (src/cyberguard_premium.py): the daily counter of   *)
(* free checks of one user.  The server answers requests on threads; a     *)
(* handler holds the user's dict by reference.                             *)
(***************************************************************************)
\* Free users get 5 checks per day
FreeChecksPerDay == 5
\* the days the model lets pass
MaxDay == 2
\* the checks the model lets one user make
MaxChecks == 6
\* 'last_check_date': None, 'premium_until': None
NoDate == -1

\* premium_plans: the duration of each plan in days; .get(plan) is None for
\* any other name
premium_plans == [daily |-> 1, weekly |-> 7, monthly |-> 30]
\* the plans the clients ask for; there is no plan "yearly"
PlanNames == {"daily", "yearly"}

\* the default dict of UserManager.get_user
default_user ==
  [is_premium |-> FALSE, premium_until |-> NoDate, checks_today |-> 0,
   last_check_date |-> NoDate, total_checks |-> 0]

\* UserManager.can_make_free_check(user), lines 40-43: the dict after the
\* counter is reset on a new day
reset_daily_counter(user, day) ==
  IF user.last_check_date /= day
    THEN [user EXCEPT !.checks_today = 0, !.last_check_date = day]
    ELSE user

\* UserManager.can_make_free_check(user), line 47: the value returned
under_free_limit(user) == user.checks_today < FreeChecksPerDay

\* UserManager.record_check(user): the dict after the call
record_check(user, day) ==
  [user EXCEPT !.checks_today = @ + 1, !.total_checks = @ + 1, !.last_check_date = day]

PremiumKinds == {"check-ussd", "check-sms"}

\* the date of premium_until is past
Expired(user) == user.premium_until /= NoDate /\ today > user.premium_until

\* get_user hands out the dict users_db holds, or a new default dict that
\* users_db does not hold
GetUser ==
  LET fresh == users_db = 0
  IN [ref |-> IF fresh THEN Len(user_objects) + 1 ELSE users_db,
      objs |-> IF fresh THEN Append(user_objects, default_user) ELSE user_objects]

\* check_ussd and check_sms, lines 509-514 and 561-566: get_user, the test of
\* is_premium and, for a user who is not premium, the first half of
\* can_make_free_check, which resets the counter in the dict on a new day.
\* The request notes whether it skipped the limit (exempt), whether the
\* user's premium_until was past, and whether it reset the counter.
PremiumBegin(p, kind) ==
  /\ premium_requests[p] = NoCall
  /\ LET got == GetUser
         user == got.objs[got.ref]
     IN /\ user.total_checks < MaxChecks
        /\ user_objects' = [got.objs EXCEPT ![got.ref] =
              IF user.is_premium THEN user ELSE reset_daily_counter(user, today)]
        /\ premium_requests' = [premium_requests EXCEPT ![p] =
              [pc |-> IF user.is_premium THEN "record" ELSE "test",
               user |-> got.ref, exempt |-> user.is_premium, expired |-> Expired(user),
               reset |-> ~user.is_premium /\ user.last_check_date /= today,
               limit_reached |-> FALSE]]
  /\ UNCHANGED <<today, users_db, scorer_vars, store_vars, check_vars, read_vars, updater_vars, compare_vars>>

\* can_make_free_check returns checks_today < 5 of the dict as it is now; the
\* request is refused with limit_reached or goes on to record the check
PremiumTest(p) ==
  /\ premium_requests[p].pc = "test"
  /\ premium_requests' = [premium_requests EXCEPT ![p] =
       IF under_free_limit(user_objects[premium_requests[p].user])
         THEN [@ EXCEPT !.pc = "record"]
         ELSE [@ EXCEPT !.pc = "done", !.limit_reached = TRUE]]
  /\ UNCHANGED <<today, user_objects, users_db, scorer_vars, store_vars, check_vars, read_vars, updater_vars, compare_vars>>

\* UserManager.record_check(user) and the answer of the check
PremiumRecord(p) ==
  /\ premium_requests[p].pc = "record"
  /\ LET ref == premium_requests[p].user
     IN /\ user_objects' = [user_objects EXCEPT ![ref] = record_check(@, today)]
        /\ users_db' = ref
        /\ premium_requests' = [premium_requests EXCEPT ![p] = [@ EXCEPT !.pc = "done"]]
  /\ UNCHANGED <<today, scorer_vars, store_vars, check_vars, read_vars, updater_vars, compare_vars>>

\* upgrade_premium, lines 628-657: an unknown plan is answered success=False;
\* a known plan sets is_premium and premium_until in the dict and saves it
UpgradePremium(plan) ==
  /\ LET got == GetUser
         user == got.objs[got.ref]
         valid == plan \in DOMAIN premium_plans
     IN /\ user_objects' =
             IF valid
               THEN [got.objs EXCEPT ![got.ref] =
                       [user EXCEPT !.is_premium = TRUE,
                                    !.premium_until = today + premium_plans[plan]]]
               ELSE user_objects
        /\ users_db' = IF valid THEN got.ref ELSE users_db
  /\ UNCHANGED <<today, premium_requests, scorer_vars, store_vars, check_vars, read_vars, updater_vars, compare_vars>>

\* the response is sent and the thread is free; a dict that neither users_db
\* nor another handler holds is garbage, and its slot is cleared
PremiumReturn(p) ==
  /\ premium_requests[p].pc = "done"
  /\ premium_requests' = [premium_requests EXCEPT ![p] = NoCall]
  /\ LET ref == premium_requests[p].user
         held == ref = users_db
                   \/ \E q \in Threads \ {p} :
                        premium_requests[q] /= NoCall /\ premium_requests[q].user = ref
     IN user_objects' = IF held THEN user_objects
                                ELSE [user_objects EXCEPT ![ref] = default_user]
  /\ UNCHANGED <<today, users_db, scorer_vars, store_vars, check_vars, read_vars, updater_vars, compare_vars>>

\* midnight
NextDay ==
  /\ today < MaxDay
  /\ today' = today + 1
  /\ UNCHANGED <<user_objects, users_db, premium_requests,
                 scorer_vars, store_vars, check_vars, read_vars, updater_vars, compare_vars>>

NextPremium ==
  \/ \E p \in Threads : \E kind \in PremiumKinds : PremiumBegin(p, kind)
  \/ \E p \in Threads : PremiumTest(p)
  \/ \E p \in Threads : PremiumRecord(p)
  \/ \E plan \in PlanNames : UpgradePremium(plan)
  \/ \E p \in Threads : PremiumReturn(p)
  \/ NextDay

SpecPremium == Init /\ [][NextPremium]_vars

(***************************************************************************)
(* The updater (src/auto_updater.py): update_safe_codes and force_update,  *)
(* called by the admin endpoints of the service (on its worker threads)    *)
(* and by the cron job, on the files of the data directory.                *)
(***************************************************************************)
\* timedelta(hours=24)
UpdateIntervalHours == 24
\* the time that passes in one step of the clock, and the last hour of the model
TickHours == 18
MaxClock == 36

\* the safe codes of the model in ascending order, as sorted() puts them
CodeOrder ==
  <<<<"*","7","*","A","#">>, <<"*","7","*","a","#">>,
    <<"*","7","3","7","#">>, <<"*","9","0","1","#">>>>

\* sorted(merged_codes)
SortCodes(codes) == SelectSeq(CodeOrder, LAMBDA c : c \in codes)

\* what the sources may deliver: lines of text, codes or not
FetchedLists ==
  {<<<<"*","7","3","7","#">>, <<"7","3","7">>>>,
   <<<<" ","*","9","0","1","#">>>>}

\* the safe-code file an updater may find
StartUpdaterSafe ==
  {<<>>, <<<<"*","9","0","1","#">>, <<"*","7","*","a","#">>>>}

\* AutoUpdater.validate_ussd_code(code)
validate_ussd_code(code) ==
  /\ code /= <<>>
  /\ Len(code) <= 50
  /\ UssdFormatMatch(updater_normalize_ussd(code))

\* the valid codes of a fetched list, normalised
ValidCodes(fetched) ==
  {updater_normalize_ussd(fetched[i]) : i \in {j \in DOMAIN fetched : validate_ussd_code(fetched[j])}}

\* AutoUpdater.should_update()
should_update(file, now) ==
  IF ~file.exists THEN TRUE ELSE now - file.time > UpdateIntervalHours

\* AutoUpdater.load_existing_codes() on a readable file
load_existing_codes(lines) ==
  {updater_normalize_ussd(l) : l \in SeqToSet(load_lines(lines))}

\* the result of a skipped call
SkippedResult == [skipped |-> TRUE, reason |-> "recently_updated"]

\* an action of the updater leaves the rest of the service alone
UpdaterFrame ==
  UNCHANGED <<reports_file, curated_file, blacklist_file, requests, reports_at_start,
              reports_before, scorer_vars, check_vars, read_vars, premium_vars, compare_vars>>

\* a start with the data directory of an earlier run: an update was completed
\* at hour 0, or none was
InitUpdater ==
  /\ ussd_call = NoCall
  /\ sms_call = NoCall
  /\ reports_file = JsonFile(<<>>)
  /\ curated_file = CuratedFile(<<>>)
  /\ safe_file \in StartUpdaterSafe
  /\ blacklist_file = <<>>
  /\ requests = [p \in Requests |-> Idle]
  /\ reports_at_start = <<>>
  /\ reports_before = <<>>
  /\ cache_file = EmptyCache
  /\ check_call = NoCall
  /\ read_call = NoCall
  /\ InitPremium
  /\ clock = 0
  /\ \E recorded \in BOOLEAN :
        /\ last_update_file = IF recorded THEN Timestamp(0) ELSE NoTimestamp
        /\ last_done = IF recorded THEN 0 ELSE NoTime
        /\ stats_file = IF recorded THEN [EmptyStats EXCEPT !.timestamp = 0] ELSE EmptyStats
  /\ updater_calls = [c \in Callers |-> NoCall]
  /\ compare_call = NoCall
  /\ detector = NewDetector

\* force_update(), lines 319-321: the timestamp file is removed
ForceUnlink(c) ==
  /\ updater_calls[c] = NoCall
  /\ last_update_file' = NoTimestamp
  /\ updater_calls' = [updater_calls EXCEPT
       ![c] = [pc |-> "decide", kind |-> "force", called |-> clock, since_done |-> last_done]]
  /\ UNCHANGED <<clock, safe_file, stats_file, last_done>>
  /\ UpdaterFrame

\* update_safe_codes(), lines 158-204: the call is skipped, or the existing
\* codes are loaded, the sources fetched and the codes merged
Decide(c, fetched) ==
  /\ \/ updater_calls[c] = NoCall
     \/ updater_calls[c].pc = "decide"
  /\ LET kind == IF updater_calls[c] = NoCall THEN "standard" ELSE "force"
         called == IF updater_calls[c] = NoCall THEN clock ELSE updater_calls[c].called
         since == IF updater_calls[c] = NoCall THEN last_done ELSE updater_calls[c].since_done
         existing_codes == load_existing_codes(safe_file)
         merged_codes == existing_codes \cup ValidCodes(fetched)
         stats == [timestamp |-> clock, total_codes |-> Cardinality(merged_codes)]
     IN updater_calls' = [updater_calls EXCEPT ![c] =
          IF ~should_update(last_update_file, clock)
            THEN [pc |-> "done", kind |-> kind, called |-> called, since_done |-> since,
                  result |-> SkippedResult, prev_done |-> last_done,
                  safe_before |-> load_code_set(safe_file)]
            ELSE [pc |-> "save", kind |-> kind, called |-> called, since_done |-> since,
                  merged_codes |-> merged_codes, stats |-> stats,
                  safe_before |-> load_code_set(safe_file)]]
  /\ UNCHANGED <<clock, safe_file, last_update_file, stats_file, last_done>>
  /\ UpdaterFrame

\* lines 207-208: the merged codes are written, sorted, to the safe-code file
SaveCodes(c) ==
  /\ updater_calls[c].pc = "save"
  /\ safe_file' = SortCodes(updater_calls[c].merged_codes)
  /\ updater_calls' = [updater_calls EXCEPT ![c] = [@ EXCEPT !.pc = "stamp"]]
  /\ UNCHANGED <<clock, last_update_file, stats_file, last_done>>
  /\ UpdaterFrame

\* lines 210-221: the timestamp and the stats are written and the stats returned
FinishUpdate(c) ==
  /\ updater_calls[c].pc = "stamp"
  /\ last_update_file' = Timestamp(clock)
  /\ stats_file' = updater_calls[c].stats
  /\ last_done' = clock
  /\ updater_calls' = [updater_calls EXCEPT ![c] =
       [pc |-> "done", kind |-> @.kind, called |-> @.called, since_done |-> @.since_done,
        result |-> [skipped |-> FALSE, stats |-> @.stats], prev_done |-> last_done,
        safe_before |-> @.safe_before]]
  /\ UNCHANGED <<clock, safe_file>>
  /\ UpdaterFrame

\* re.search(r"^\*\d[\d\*#A-Za-z]+\#?$", normalize_ussd(cand))
SyncCandidate(cand) ==
  LET n == normalize_ussd(cand)
  IN Len(n) >= 3 /\ n[1] = "*" /\ IsDigit(n[2]) /\ \A i \in 3..Len(n) : IsUssdChar(n[i])

\* sync_ussd(req) with URLs in the request: the candidates of the fetched
\* lines are merged with the safe list and the file is written, sorted;
\* nothing is written when no candidate was fetched
SyncUssd(c, lines) ==
  /\ updater_calls[c] = NoCall
  /\ LET fetched == {normalize_ussd(cand) : cand \in {x \in SeqToSet(load_lines(lines)) : SyncCandidate(x)}}
         safe == load_code_set(safe_file)
     IN /\ safe_file' = IF fetched = {} THEN safe_file ELSE SortCodes(safe \cup fetched)
        /\ updater_calls' = [updater_calls EXCEPT ![c] =
             [pc |-> "done", kind |-> "sync", called |-> clock, since_done |-> last_done,
              result |-> [skipped |-> FALSE, total |-> Cardinality(safe \cup fetched)],
              prev_done |-> last_done, safe_before |-> safe]]
  /\ UNCHANGED <<clock, last_update_file, stats_file, last_done>>
  /\ UpdaterFrame

\* the caller has the result
UpdaterReturn(c) ==
  /\ updater_calls[c].pc = "done"
  /\ updater_calls' = [updater_calls EXCEPT ![c] = NoCall]
  /\ UNCHANGED <<clock, safe_file, last_update_file, stats_file, last_done>>
  /\ UpdaterFrame

\* time passes
Tick ==
  /\ clock + TickHours <= MaxClock
  /\ clock' = clock + TickHours
  /\ UNCHANGED <<safe_file, last_update_file, stats_file, updater_calls, last_done>>
  /\ UpdaterFrame

NextUpdater ==
  \/ \E c \in Callers : ForceUnlink(c)
  \/ \E c \in Callers : \E fetched \in FetchedLists : Decide(c, fetched)
  \/ \E c \in Callers : SaveCodes(c)
  \/ \E c \in Callers : FinishUpdate(c)
  \/ \E c \in Callers : \E lines \in FetchedLists : SyncUssd(c, lines)
  \/ \E c \in Callers : UpdaterReturn(c)
  \/ Tick

SpecUpdater == InitUpdater /\ [][NextUpdater]_vars

(***************************************************************************)
(* The SMS scoring of two server variants: /check-sms of the premium       *)
(* variant (src/cyberguard_premium.py) and /api/check-sms of the Vercel    *)
(* variant (src/cyberguard_vercel_fixed.py).                               *)
(***************************************************************************)
\* the patterns table of the Vercel variant: <<alternatives, points>>
vercel_patterns ==
  <<<<{<<"w","o","n">>, <<"p","r","i","z","e">>, <<"l","o","t","t","e","r","y">>,
       <<"c","o","n","g","r","a","t","u","l","a","t","i","o","n","s">>}, 10>>,
    <<{<<"b","v","n">>, <<"p","a","s","s","w","o","r","d">>, <<"p","i","n">>,
       <<"v","e","r","i","f","i","c","a","t","i","o","n">>}, 8>>,
    <<{<<"u","r","g","e","n","t">>, <<"i","m","m","e","d","i","a","t","e","l","y">>,
       <<"n","o","w">>, <<"t","o","d","a","y">>}, 5>>,
    <<{<<"c","a","l","l"," ">>, <<"t","e","x","t"," ">>, <<"w","h","a","t","s","a","p","p">>}, 4>>,
    <<{<<"h","t","t","p">>, <<":","/","/">>, <<"w","w","w",".">>}, 6>>,
    <<{<<"a","c","c","o","u","n","t">>, <<"b","a","n","k">>, <<"s","e","c","u","r","i","t","y">>}, 4>>>>

\* the premium table with 6 points for the last pattern
premium_patterns_nigeria_6 ==
  vercel_patterns \o <<<<{<<"n","i","g","e","r","i","a">>, <<"n","i","g","e","r","i","a","n">>}, 6>>>>

\* the patterns table of the premium variant: the same six, and 'nigeria|nigerian': 2
premium_patterns ==
  vercel_patterns \o <<<<{<<"n","i","g","e","r","i","a">>, <<"n","i","g","e","r","i","a","n">>}, 2>>>>

\* re.search(r'08[0-9]{8,}', sms)
NigerianPhone(sms) ==
  \E i \in 1..Len(sms) :
     /\ i + 1 <= Len(sms)
     /\ sms[i] = "0"
     /\ sms[i + 1] = "8"
     /\ DigitsAt(sms, i + 2, 8)

RECURSIVE PatternPoints(_, _)
\* the points of the patterns of the table that re.search finds in sms_lower
PatternPoints(patterns, sms_lower) ==
  IF patterns = <<>> THEN 0
  ELSE (IF \E alt \in Head(patterns)[1] : Contains(sms_lower, alt) THEN Head(patterns)[2] ELSE 0)
       + PatternPoints(Tail(patterns), sms_lower)

\* score >= 15: scam, score >= 10: warning, else safe
result_type(score) ==
  IF score >= 15 THEN "scam" ELSE IF score >= 10 THEN "warning" ELSE "safe"

\* check_sms of either variant from data.get('sms') on, with the table of the variant
variant_check_sms(patterns, text) ==
  LET sms == Strip(text)
      score == PatternPoints(patterns, Lower(sms)) + (IF NigerianPhone(sms) THEN 5 ELSE 0)
  IN [type |-> result_type(score), score |-> score]

\* the texts: every concatenation of at most MaxVariantChunks pieces
VariantChunks ==
  <<<<" ">>,
    <<"Y","o","u"," ","w","o","n">>,
    <<"b","v","n">>,
    <<"N","O","W">>,
    <<"c","a","l","l"," ">>,
    <<"w","w","w",".">>,
    <<"b","a","n","k">>,
    <<"N","i","g","e","r","i","a">>,
    <<"0","8","0","1","2","3","4","5","6","7">>,
    <<"h","e","l","l","o">>>>
MaxVariantChunks == 3

VariantTexts ==
  {Concat([i \in 1..Len(f) |-> VariantChunks[f[i]]]) :
     f \in UNION {[1..n -> DOMAIN VariantChunks] : n \in 0..MaxVariantChunks}}

\* one text is sent to /check-sms of the premium variant, for a user under
\* the free limit, and to /api/check-sms of the Vercel variant
CompareCheckSms ==
  /\ compare_call = NoCall
  /\ \E text \in VariantTexts :
       compare_call' = [pc |-> "answered", sms |-> text,
                        premium |-> variant_check_sms(premium_patterns, text),
                        vercel |-> variant_check_sms(vercel_patterns, text)]
  /\ UNCHANGED <<detector, scorer_vars, store_vars, check_vars, read_vars, premium_vars, updater_vars>>

\* the two answers are read
CompareReturn ==
  /\ compare_call /= NoCall
  /\ compare_call' = NoCall
  /\ UNCHANGED <<detector, scorer_vars, store_vars, check_vars, read_vars, premium_vars, updater_vars>>

NextVariants == CompareCheckSms \/ CompareReturn

SpecVariants == Init /\ [][NextVariants]_vars

(***************************************************************************)
(* The simulation of automatic SMS detection (src/test_auto_sms.py)        *)
(***************************************************************************)
high_risk_phrases ==
  <<<<"w","o","n">>,
    <<"p","r","i","z","e">>,
    <<"l","o","t","t","e","r","y">>,
    <<"c","o","n","g","r","a","t","u","l","a","t","i","o","n","s">>,
    <<"c","l","a","i","m">>,
    <<"f","r","e","e">>,
    <<"g","i","f","t">>,
    <<"u","r","g","e","n","t">>,
    <<"i","m","m","e","d","i","a","t","e","l","y">>,
    <<"m","i","l","l","i","o","n">>,
    <<"c","a","s","h"," ","a","w","a","r","d">>>>

security_keywords ==
  <<<<"b","v","n">>,
    <<"p","a","s","s","w","o","r","d">>,
    <<"p","i","n">>,
    <<"v","e","r","i","f","i","c","a","t","i","o","n">>,
    <<"s","u","s","p","e","n","d","e","d">>,
    <<"r","e","s","e","t">>,
    <<"a","u","t","h","e","n","t","i","c","a","t","e">>,
    <<"v","a","l","i","d","a","t","e">>,
    <<"c","o","n","f","i","r","m">>,
    <<"a","c","c","o","u","n","t">>>>

\* the number of entries of the list that occur in the text
PhraseCount(phrases, normalized) ==
  Cardinality({i \in DOMAIN phrases : Contains(normalized, phrases[i])})

\* check_sms_message, lines 83, 88, 93: a URL, a phone request, money
HasUrl(n) ==
  \/ Contains(n, <<"h","t","t","p",":","/","/">>)
  \/ Contains(n, <<"h","t","t","p","s",":","/","/">>)
  \/ Contains(n, <<"w","w","w",".">>)
HasPhoneRequest(n) ==
  /\ \/ Contains(n, <<"c","a","l","l">>)
     \/ Contains(n, <<"c","o","n","t","a","c","t">>)
     \/ Contains(n, <<"r","e","p","l","y">>)
  /\ \E i \in DOMAIN n : IsDigit(n[i])
HasMoney(n) ==
  \/ Contains(n, <<"$">>)
  \/ Contains(n, <<"c","a","s","h">>)
  \/ Contains(n, <<"m","o","n","e","y">>)
  \/ Contains(n, <<"n","a","i","r","a">>)

\* check_sms_message, lines 54-95: the score
SimulationScore(message) ==
  LET normalized == Lower(message)
  IN 6 * PhraseCount(high_risk_phrases, normalized)
     + 5 * PhraseCount(security_keywords, normalized)
     + (IF HasUrl(normalized) THEN 8 ELSE 0)
     + (IF HasPhoneRequest(normalized) THEN 7 ELSE 0)
     + (IF HasMoney(normalized) THEN 4 ELSE 0)

\* check_sms_message, lines 51-52 and 97-125: safe and confidence of the result
check_sms_message(message) ==
  IF Strip(message) = <<>> THEN [safe |-> TRUE, confidence |-> 0]
  ELSE LET score == SimulationScore(message)
       IN IF score >= 20 THEN [safe |-> FALSE, confidence |-> 95]
          ELSE IF score >= 15 THEN [safe |-> FALSE, confidence |-> 80]
          ELSE IF score >= 10 THEN [safe |-> FALSE, confidence |-> 65]
          ELSE [safe |-> TRUE, confidence |-> 90]

\* the messages the model lets the detector receive
MaxMessages == 6

\* messages of main() and others: main, line 151; main, line 165; three high-risk phrases and more; one high-risk phrase and one security keyword; a phone request and a mention of money; blank
SimulatedMessages ==
  {<<"Y","o","u","r"," ","a","c","c","o","u","n","t"," ","w","i","l","l"," ","b","e"," ","c","l","o","s","e","d"," ","t","o","d","a","y","."," ","C","a","l","l"," ","0","8","0","3","1","2","3","4","5","6","7"," ","i","m","m","e","d","i","a","t","e","l","y"," ","t","o"," ","v","e","r","i","f","y",".">>,
   <<"R","e","m","i","n","d","e","r",":"," ","D","e","n","t","i","s","t"," ","a","p","p","o","i","n","t","m","e","n","t"," ","t","o","m","o","r","r","o","w"," ","a","t"," ","1","0"," ","A","M">>,
   <<"F","r","e","e"," ","g","i","f","t","!"," ","C","l","a","i","m"," ","y","o","u","r"," ","p","r","i","z","e">>,
   <<"U","R","G","E","N","T",":"," ","c","o","n","f","i","r","m">>,
   <<"S","e","n","d"," ","c","a","s","h",","," ","r","e","p","l","y"," ","1">>,
   <<" "," ">>}

SimulationFrame ==
  UNCHANGED <<compare_call, scorer_vars, store_vars, check_vars, read_vars, premium_vars, updater_vars>>

\* simulate_incoming_sms(message), lines 33-45
SimulateIncomingSms ==
  /\ detector.messages < MaxMessages
  /\ \E message \in SimulatedMessages :
       LET result == check_sms_message(message)
           alert == ~result.safe /\ result.confidence >= 75
       IN detector' =
            [detector EXCEPT
               !.messages = @ + 1,
               !.scam_messages_detected = IF alert THEN @ + 1 ELSE @,
               !.legitimate_messages_passed = IF ~alert /\ result.safe THEN @ + 1 ELSE @]
  /\ SimulationFrame

\* print_stats(), line 132: 'Total messages processed'
PrintStats ==
  /\ detector' = [detector EXCEPT !.stats =
       [printed |-> TRUE,
        total |-> detector.scam_messages_detected + detector.legitimate_messages_passed,
        messages |-> detector.messages]]
  /\ SimulationFrame

NextSimulation == SimulateIncomingSms \/ PrintStats

SpecSimulation == Init /\ [][NextSimulation]_vars

(***************************************************************************)
(* GET /mobile/check beside GET /check-ussd                                *)
(***************************************************************************)
\* "safe": score < 6
IsSafeScoreMobile(score) == score < 6

\* reasons[:3]
FirstThree(reasons) == SubSeq(reasons, 1, Min2(3, Len(reasons)))

\* mobile_check_ussd, lines 945-960: the safe list, then the pattern score;
\* neither the blacklist nor the cache is read
mobile_check_ussd(code, safe_lines) ==
  LET normalized == normalize_ussd(code)
      scored == pattern_score_ussd(code)
  IN IF normalized \in load_code_set(safe_lines)
       THEN [safe |-> TRUE, reason |-> "known_safe", confidence |-> 95]
       ELSE [safe |-> IsSafeScoreMobile(scored.score), score |-> scored.score,
             reasons |-> FirstThree(scored.reasons),
             confidence |-> Max2(0, 100 - scored.score * 10)]

\* one code is sent to /mobile/check and to /check-ussd without full_mode,
\* with the same files on disk
CompareCheckUssd ==
  /\ compare_call = NoCall
  /\ \E code \in CheckCodes :
       compare_call' =
         [pc |-> "compared", code |-> code,
          mobile |-> mobile_check_ussd(code, safe_file),
          standard |-> check_ussd(code, FALSE, FALSE, <<>>, safe_file, blacklist_file,
                                  cache_file)]
  /\ UNCHANGED <<detector, scorer_vars, store_vars, check_vars, read_vars, premium_vars, updater_vars>>

NextMobile == CompareCheckUssd \/ CompareReturn

SpecMobile == InitCheck /\ [][NextMobile]_vars

(***************************************************************************)
(* Properties of the scorers                                               *)
(***************************************************************************)
UssdReturned == ussd_call.pc = "returned"
SmsReturned == sms_call.pc = "returned"

\* C1: for every input string, empty and whitespace-only codes included, the
\* score pattern_score_ussd returns lies in 0..10.
C1_UssdScoreInRange == UssdReturned => ussd_call.score \in 0..10

\* the code contains bvn, pin or password in any letter case
ContainsSensitive(code) ==
  \E k \in {<<"b","v","n">>, <<"p","i","n">>, <<"p","a","s","s","w","o","r","d">>} :
     \E i \in 1..Len(code) :
        i + Len(k) - 1 <= Len(code)
        /\ \A j \in 1..Len(k) : code[i + j - 1] \in {k[j], UpperChar(k[j])}

\* C2: a code that contains bvn, pin or password in any letter case and is
\* not in the known-safe whitelist gets a final score of at least 8, also
\* when it starts with a known safe prefix.
C2_SensitiveScoresAtLeast8 ==
  (UssdReturned /\ ContainsSensitive(ussd_call.code)
     /\ normalize_ussd(ussd_call.code) \notin KNOWN_SAFE_CODES)
    => ussd_call.score >= 8

\* C2 witness: a sensitive code with a known safe prefix and an invalid
\* format, so that the prefix reduction took 2 off before the keyword counted
C2_Witness ==
  /\ UssdReturned
  /\ ContainsSensitive(ussd_call.code)
  /\ HasSafePrefix(normalize_ussd(ussd_call.code))
  /\ ~UssdFormatMatch(normalize_ussd(ussd_call.code))
  /\ ussd_call.score >= 8

\* C3: a code whose normalised form is in KNOWN_SAFE_CODES gets score 0, so
\* safe = (score < 5) is true, and no other rule contributes a reason.
C3_WhitelistScoresZero ==
  (UssdReturned /\ normalize_ussd(ussd_call.code) \in KNOWN_SAFE_CODES)
    => /\ ussd_call.score = 0
       /\ ussd_call.score < 5
       /\ ussd_call.reasons = <<Reason("Known safe telco/bank code", <<>>, 0)>>

\* C3 witness: a whitelisted code given with blanks that normalisation removes
C3_Witness ==
  /\ UssdReturned
  /\ normalize_ussd(ussd_call.code) \in KNOWN_SAFE_CODES
  /\ ussd_call.code /= normalize_ussd(ussd_call.code)
  /\ ussd_call.score = 0

\* C4: an SMS that matches one of the legitimate whitelist templates, as
\* written or after lower-casing and removal of punctuation, is answered with
\* scam = false and confidence = 0, whatever else the text contains.
C4_TemplateIsNeverScam ==
  (SmsReturned /\ (\/ LegitimateMatch(sms_call.content)
                   \/ LegitimateMatch(SmsNormalize(sms_call.content))))
    => sms_call.result.scam = FALSE /\ sms_call.result.confidence = 0

\* C4 witness: a template in a text that also asks for the BVN and announces
\* a win, answered by the whitelist branch
C4_Witness ==
  /\ SmsReturned
  /\ LegitimateMatch(SmsNormalize(sms_call.content))
  /\ Contains(SmsNormalize(sms_call.content), <<"b","v","n">>)
  /\ Contains(SmsNormalize(sms_call.content), <<"w","o","n">>)
  /\ sms_call.result.reasons = <<Reason("Legitimate communication pattern", <<>>, 0)>>

\* C5 as claimed: no score value that improved_check_sms_scam returns
\* exceeds 10.
C5_ReturnedScoreInRange ==
  (SmsReturned /\ "score" \in DOMAIN sms_call.result)
    => sms_call.result.score \in 0..10

\* C5 as amended: the confidence that improved_check_sms_scam returns lies in
\* 0..10 and is the accumulated score capped at 10; the score field, where
\* returned, is the accumulated sum itself, never negative.
C5_ConfidenceClamped ==
  SmsReturned =>
    /\ sms_call.result.confidence \in 0..10
    /\ "score" \in DOMAIN sms_call.result =>
         /\ sms_call.result.score >= 0
         /\ sms_call.result.confidence =
              (IF sms_call.result.score > 10 THEN 10 ELSE sms_call.result.score)

\* C5 witness: keywords and phrase patterns add up to more than 10 and the
\* confidence is capped
C5_Witness ==
  /\ SmsReturned
  /\ "score" \in DOMAIN sms_call.result
  /\ sms_call.result.score > 10
  /\ sms_call.result.confidence = 10
(***************************************************************************)
(* Properties of the report store                                          *)
(***************************************************************************)
\* the reports a reader gets from the file now
Stored == read_reports(reports_file)

\* no handler is running
Quiescent == \A p \in Requests : requests[p].pc \in {"idle", "done"}

\* C7: after any sequence of submit_report, update_report_status,
\* approve_report and reject_report requests, the status of every stored
\* report is one of Pending, Verified, Rejected.
C7_StatusIsOneOfThree ==
  \A i \in DOMAIN Stored : Stored[i].status \in {"Pending", "Verified", "Rejected"}

\* C8: a status changes only along Pending -> Verified or Pending ->
\* Rejected: no moderation request takes a report that is Verified or
\* Rejected to another status, so a report the file held as Verified or
\* Rejected before a write has that status after it.
C8_VerifiedAndRejectedAreFinal ==
  \A i \in DOMAIN Stored \cap DOMAIN reports_before :
     reports_before[i].status \in {"Verified", "Rejected"}
       => Stored[i].status = reports_before[i].status

\* C9: reports are never deleted: once every request has been answered, the
\* file holds at least the reports it held at start, each at its index with
\* its report_type and content.
C9_ReportsNeverDeleted ==
  Quiescent =>
    /\ Len(Stored) >= Len(reports_at_start)
    /\ \A i \in DOMAIN reports_at_start :
         /\ Stored[i].report_type = reports_at_start[i].report_type
         /\ Stored[i].content = reports_at_start[i].content

\* C10: two overlapping requests, one of them a submit_report, both return
\* success and the file lacks the effect of one. The interleaving needs a
\* submit_report that returns success: every answered submit_report has
\* status 200.
C10_SubmitReportSucceeds ==
  \A p \in Requests :
     (requests[p].pc = "done" /\ requests[p].body.op = "submit_report")
       => requests[p].resp = 200

\* the status a moderation request gives the report at its index
StatusSet(body) ==
  CASE body.op = "update_report_status" -> body.status
    [] body.op = "approve_report" -> "Verified"
    [] body.op = "reject_report" -> "Rejected"

\* C10, between two moderation requests: both are answered 200, they are for
\* different reports, and the file lacks the status one of them set
C10_LostModerationUpdate ==
  \E p, q \in Requests :
     /\ p /= q
     /\ requests[p].pc = "done" /\ requests[p].resp = 200
     /\ requests[q].pc = "done" /\ requests[q].resp = 200
     /\ requests[p].body.index /= requests[q].body.index
     /\ reports_file.json
     /\ Stored[requests[p].body.index + 1].status /= StatusSet(requests[p].body)
     /\ Stored[requests[q].body.index + 1].status = StatusSet(requests[q].body)

(***************************************************************************)
(* Properties of /check-ussd                                               *)
(***************************************************************************)
\* /check-ussd has answered 200 with a response body
CheckAnswered == check_call.pc = "returned" /\ check_call.status = 200

\* C11: in every /check-ussd response the safe flag is true exactly when the
\* returned score is below 5.
C11_SafeIffScoreBelow5 ==
  CheckAnswered => (check_call.body.safe <=> check_call.body.score < 5)

\* C11, by branch: a blacklisted and a pattern-scored response have safe
\* exactly when score < 5; a safe-listed and an online-verified response have
\* safe = true whatever the score; a cached response has the safe flag and
\* the score of the entry.
C11_SafeFlagByBranch ==
  CheckAnswered =>
    LET body == check_call.body
    IN /\ body.branch \in {"blacklisted", "scored"} => (body.safe <=> body.score < 5)
       /\ body.branch \in {"safe_list", "verified"} => body.safe
       /\ body.branch = "cached" =>
            /\ body.safe = check_call.cache_before[body.code].safe
            /\ body.score = check_call.cache_before[body.code].score

\* a pattern-scored response at the threshold: score 5, not safe
C11_Witness ==
  /\ CheckAnswered
  /\ check_call.body.branch = "scored"
  /\ check_call.body.score = 5
  /\ ~check_call.body.safe

\* C12: a cache entry is keyed by the normalised code and no request
\* removes or rewrites it: after a /check-ussd every entry the cache held is
\* still there unchanged, and a /check-ussd for a code that has an entry and
\* is not blacklisted returns the entry's safe, score and reasons with
\* cached = true.
C12_CacheEntriesKeptAndServed ==
  check_call.pc = "returned" =>
    LET before == check_call.cache_before
        norm == normalize_ussd(check_call.code)
    IN /\ \A c \in DOMAIN before : c \in DOMAIN cache_file /\ cache_file[c] = before[c]
       /\ (/\ check_call.status = 200
           /\ norm \in DOMAIN before
           /\ norm \notin load_code_set(blacklist_file))
            => /\ check_call.body.cached
               /\ check_call.body.safe = before[norm].safe
               /\ check_call.body.score = before[norm].score
               /\ check_call.body.reasons = before[norm].reasons

\* a code sent with spaces is answered from the entry of its normalised form
C12_Witness ==
  /\ CheckAnswered
  /\ check_call.body.cached
  /\ check_call.code /= check_call.body.code
  /\ check_call.body.code \in DOMAIN cache_file
  /\ check_call.body.score = cache_file[check_call.body.code].score

(***************************************************************************)
(* Properties of the curation endpoints                                    *)
(***************************************************************************)
\* the delete_curated_code requests that found something to delete
Deleting ==
  {p \in Requests : /\ requests[p].pc \in {"open", "write", "done"}
                    /\ requests[p].body.op = "delete_curated_code"
                    /\ requests[p].resp /= 404}

\* the entry is not in the list the request saves
Removed(p, entry) == entry \notin SeqToSet(requests[p].filtered_codes)

\* C13: delete_curated_code removes an entry only when its stored code is
\* exactly equal to the requested code; every entry whose code differs from
\* the requested string is left in the collection.
C13_RemovesOnlyExactMatches ==
  \A p \in Deleting : \A entry \in SeqToSet(requests[p].curated_codes) :
     Removed(p, entry) => entry.code = requests[p].body.code

\* the two codes are equal once stripped, freed of spaces and upper-cased
SameCuratedCode(a, b) == Upper(RemoveSpaces(Strip(a))) = Upper(RemoveSpaces(Strip(b)))

\* C13, with the comparison the handler makes: delete_curated_code removes
\* exactly the entries whose code equals the requested code after both are
\* stripped, freed of spaces and upper-cased, and keeps the others in order.
C13_RemovesNormalisedMatches ==
  \A p \in Deleting :
     LET loaded == requests[p].curated_codes
         saved == requests[p].filtered_codes
     IN /\ \A entry \in SeqToSet(loaded) :
             Removed(p, entry) <=> SameCuratedCode(entry.code, requests[p].body.code)
        /\ saved = SelectSeq(loaded, LAMBDA e : ~SameCuratedCode(e.code, requests[p].body.code))

\* a delete has been answered 200; it removed an entry whose stored code is
\* not the string it was asked for, and kept another entry
C13_Witness ==
  \E p \in Deleting :
     /\ requests[p].pc = "done" /\ requests[p].resp = 200
     /\ \E entry \in SeqToSet(requests[p].curated_codes) :
          Removed(p, entry) /\ entry.code /= requests[p].body.code
     /\ requests[p].filtered_codes /= <<>>
     /\ curated_file.json /\ curated_file.data = requests[p].filtered_codes

\* C15: the code '*123*password*#' triggers the high-risk 'password' reason
\* and pattern_score_ussd returns the capped score 10, so the code is not safe.
C15_ExampleScoresTen ==
  (ussd_call.pc = "returned" /\ ussd_call.code \in UssdExamples)
    => /\ \E i \in DOMAIN ussd_call.reasons :
             ussd_call.reasons[i] = Reason("High-risk keyword", <<"p","a","s","s","w","o","r","d">>, 0)
       /\ ussd_call.score = 10
       /\ ~(ussd_call.score < 5)

\* C15, amended: the code '*123*password*#' has the known safe prefix *123,
\* so its reasons are 'Known safe prefix' and the high-risk 'password' reason
\* and its score is 8, under the cap; the code is not safe.
C15_ExampleScoresEight ==
  (ussd_call.pc = "returned" /\ ussd_call.code \in UssdExamples)
    => /\ ussd_call.reasons =
             <<Reason("Known safe prefix", <<>>, 0),
               Reason("High-risk keyword", <<"p","a","s","s","w","o","r","d">>, 0)>>
       /\ ussd_call.score = 8
       /\ ~(ussd_call.score < 5)

C15_Witness ==
  ussd_call.pc = "returned" /\ ussd_call.code \in UssdExamples /\ ussd_call.score = 8

\* C16: for the SMS 'Congratulations! You won $1,000,000 lottery! Call now.'
\* the raw score, from the keyword weights and the winning-announcement
\* phrase, is at least 15, the confidence is 10 and scam is true.
C16_ExampleSmsIsScam ==
  (sms_call.pc = "returned" /\ sms_call.content = ExampleSms)
    => /\ sms_call.result.score >= 15
       /\ \E i \in DOMAIN sms_call.result.reasons :
             sms_call.result.reasons[i] = Reason("Winning announcement", <<>>, 0)
       /\ sms_call.result.confidence = 10
       /\ sms_call.result.scam

C16_Witness ==
  /\ sms_call.pc = "returned"
  /\ sms_call.content = ExampleSms
  /\ sms_call.result.score = 17

\* the text with the punctuation at its two ends taken off
RECURSIVE TrimPunctuation(_)
TrimPunctuation(s) ==
  IF s = <<>> THEN s
  ELSE IF Head(s) \in Punctuation THEN TrimPunctuation(Tail(s))
  ELSE IF s[Len(s)] \in Punctuation THEN TrimPunctuation(SubSeq(s, 1, Len(s) - 1))
  ELSE s

\* the single word 'congratulations' or 'congrats' in any letter case
\* between any punctuation
BareCongratulation(content) ==
  Lower(TrimPunctuation(content)) \in {<<"c","o","n","g","r","a","t","u","l","a","t","i","o","n","s">>,
                                       <<"c","o","n","g","r","a","t","s">>}

SingleWordResult(result) ==
  /\ ~result.scam
  /\ result.confidence = 0
  /\ result.reasons = <<Reason("Single word - needs context", <<>>, 0)>>

\* C18: an SMS that is the single word 'congratulations' or 'congrats', in
\* any letter case and between any punctuation, gets scam = false,
\* confidence 0 and the reasons ['Single word - needs context'].
C18_SingleWordNeedsContext ==
  (sms_call.pc = "returned" /\ BareCongratulation(sms_call.content))
    => SingleWordResult(sms_call.result)

\* C18, amended: the single word gets that result unless the text has the
\* shape of a USSD code (it starts with '*' and holds no other punctuation
\* than '*' and '#'); such a text is answered scam = false, confidence 0 and the
\* reasons ['USSD code detected'].
C18_SingleWordUnlessUssdShaped ==
  (sms_call.pc = "returned" /\ BareCongratulation(sms_call.content))
    => IF /\ sms_call.content[1] = "*"
          /\ \A i \in 2..Len(sms_call.content) :
                sms_call.content[i] \notin (Punctuation \ {"*", "#"})
         THEN /\ ~sms_call.result.scam
              /\ sms_call.result.confidence = 0
              /\ sms_call.result.reasons = <<Reason("USSD code detected", <<>>, 0)>>
         ELSE SingleWordResult(sms_call.result)

C18_Witness ==
  /\ sms_call.pc = "returned"
  /\ sms_call.content = <<"C","O","N","G","R","A","T","S","!","!">>
  /\ SingleWordResult(sms_call.result)

\* C22: a code present in the blacklist always yields safe = false, score 10
\* and the reasons ['Blacklisted'], even when the code is also in the cache,
\* in the safe list or in the whitelist of known safe codes.
C22_BlacklistFirst ==
  (CheckAnswered /\ normalize_ussd(check_call.code) \in load_code_set(blacklist_file))
    => /\ ~check_call.body.safe
       /\ check_call.body.score = 10
       /\ check_call.body.reasons = <<Reason("Blacklisted", <<>>, 0)>>
       /\ ~check_call.body.cached

\* the blacklisted code *901# is whitelisted, cached and in the safe list
C22_Witness ==
  /\ CheckAnswered
  /\ normalize_ussd(check_call.code) \in load_code_set(blacklist_file)
  /\ normalize_ussd(check_call.code) \in KNOWN_SAFE_CODES
  /\ normalize_ussd(check_call.code) \in DOMAIN check_call.cache_before
  /\ normalize_ussd(check_call.code) \in load_code_set(safe_file)
  /\ ~check_call.body.safe

(***************************************************************************)
(* Properties of the readers                                               *)
(***************************************************************************)
\* C14: every read of a file-backed collection that hits a read or parse
\* error yields the empty default instead of propagating the error; this
\* holds for the updater's reads of the safe-code and source files as well
\* as for the API's readers.
C14_ReadErrorYieldsDefault ==
  (read_call.pc = "finished" /\ read_call.file.cond \in {"unreadable", "malformed"})
    => /\ ~read_call.outcome.raised
       /\ read_call.outcome.value = EmptyDefault(read_call.reader)

(***************************************************************************)
(* Properties of the premium variant                                       *)
(***************************************************************************)
\* C17: a user who is not premium is granted at most 5 checks (USSD and SMS
\* together) per calendar day: checks_today never exceeds 5, and the request
\* that finds 5 checks made that day is answered limit_reached.
C17_AtMostFiveChecksPerDay ==
  \A i \in DOMAIN user_objects :
     ~user_objects[i].is_premium => user_objects[i].checks_today <= FreeChecksPerDay

\* a request is refused for the limit
C17_LimitReached ==
  \E p \in Threads :
     /\ premium_requests[p].pc = "done"
     /\ premium_requests[p].limit_reached
     /\ user_objects[users_db].checks_today = FreeChecksPerDay

\* C27: a request refused with limit_reached records nothing: the handler
\* that refuses has written neither checks_today nor total_checks nor the
\* users_db entry, so it has not reset the counter of the dict it holds.
C27_RefusedRecordsNothing ==
  \A p \in Threads :
     (premium_requests[p].pc = "done" /\ premium_requests[p].limit_reached)
        => ~premium_requests[p].reset

\* a request has reset the counter of the stored dict on a new day and was
\* refused all the same, the counter having reached 5 before its test
C27_ResetThenRefused ==
  \E p \in Threads :
     /\ premium_requests[p].pc = "done"
     /\ premium_requests[p].limit_reached
     /\ premium_requests[p].reset
     /\ premium_requests[p].user = users_db
     /\ user_objects[users_db].checks_today = FreeChecksPerDay

\* C28: an upgraded user is exempt from the limit of 5 checks per day only
\* until premium_until: a check requested after that date is put to the
\* free daily limit again.
C28_LimitAppliesAfterPremiumUntil ==
  \A p \in Threads :
     (premium_requests[p] /= NoCall /\ premium_requests[p].expired)
        => ~premium_requests[p].exempt

\* a check requested after premium_until was granted without the limit
\* test, as the sixth check or a later one that the dict counts
C28_ExemptAfterPremiumUntil ==
  \E p \in Threads :
     /\ premium_requests[p].pc = "done"
     /\ premium_requests[p].expired
     /\ premium_requests[p].exempt
     /\ ~premium_requests[p].limit_reached
     /\ user_objects[users_db].checks_today > FreeChecksPerDay
     /\ user_objects[users_db].last_check_date > user_objects[users_db].premium_until

(***************************************************************************)
(* Properties of the updater                                               *)
(***************************************************************************)
\* the standard calls that have their result
StandardDone(c) == updater_calls[c].pc = "done" /\ updater_calls[c].kind = "standard"

\* C19: the standard updater runs at most once per 24 hours: a call made
\* less than 24 hours after the last completed update is skipped, a call
\* made with no completed update or more than 24 hours after it performs the
\* update and records a new timestamp, and no standard update is completed
\* within 24 hours of the update completed before it.
C19_AtMostOncePer24Hours ==
  \A c \in Callers :
     StandardDone(c) =>
        LET r == updater_calls[c]
        IN /\ (r.since_done /= NoTime /\ r.called - r.since_done < UpdateIntervalHours)
                => r.result = SkippedResult
           /\ (r.since_done = NoTime \/ r.called - r.since_done > UpdateIntervalHours)
                => ~r.result.skipped
           /\ ~r.result.skipped
                => (r.prev_done = NoTime \/ clock - r.prev_done > UpdateIntervalHours)

\* a standard call one step of the clock after a completed update is skipped
C19_SkippedWithin24Hours ==
  \E c \in Callers :
     /\ StandardDone(c)
     /\ updater_calls[c].since_done /= NoTime
     /\ updater_calls[c].called - updater_calls[c].since_done = TickHours
     /\ updater_calls[c].result = SkippedResult

\* C20: force_update performs the update whatever the recorded time of the
\* last update: it never returns the skipped result, and it returns the
\* stats of an update it made after it was called.
C20_ForceNeverSkipped ==
  \A c \in Callers :
     (updater_calls[c].pc = "done" /\ updater_calls[c].kind = "force")
        => /\ updater_calls[c].result /= SkippedResult
           /\ updater_calls[c].result.stats.timestamp >= updater_calls[c].called

\* a forced update a moment after a completed update performs the update
C20_ForcedRightAfterUpdate ==
  \E c \in Callers :
     /\ updater_calls[c].pc = "done"
     /\ updater_calls[c].kind = "force"
     /\ updater_calls[c].since_done = updater_calls[c].called
     /\ ~updater_calls[c].result.skipped
     /\ last_update_file = Timestamp(clock)

\* C23: a standard or forced update and /admin/sync-ussd only add codes:
\* every code that load_safe_ussd found in the safe list before the update is
\* found in it after the update.
C23_UpdatesOnlyAddCodes ==
  \A c \in Callers :
     (updater_calls[c].pc = "done" /\ ~updater_calls[c].result.skipped)
        => updater_calls[c].safe_before \subseteq load_code_set(safe_file)

\* an update that added a code and kept the codes of the list
C23_UpdateAddedCode ==
  \E c \in Callers :
     /\ updater_calls[c].pc = "done"
     /\ ~updater_calls[c].result.skipped
     /\ updater_calls[c].safe_before /= {}
     /\ updater_calls[c].safe_before \subseteq load_code_set(safe_file)
     /\ updater_calls[c].safe_before /= load_code_set(safe_file)

(***************************************************************************)
(* Properties of the server variants                                       *)
(***************************************************************************)
\* the text names Nigeria
NamesNigeria(text) == Contains(Lower(Strip(text)), <<"n","i","g","e","r","i","a">>)

\* C21: for every SMS text the premium variant's /check-sms and the Vercel
\* variant's /api/check-sms return the same result type.
C21_SameResultType ==
  compare_call.pc = "answered" => compare_call.premium.type = compare_call.vercel.type

\* C21, amended: the two variants return the same result type for every
\* text that does not contain 'nigeria'; for a text that does, the premium
\* score is the Vercel score plus 2.
C21_SameTypeButForNigeria ==
  compare_call.pc = "answered" =>
     IF NamesNigeria(compare_call.sms)
       THEN compare_call.premium.score = compare_call.vercel.score + 2
       ELSE compare_call.premium = compare_call.vercel

\* 'bvn Nigeria': warning in the premium variant, safe in the Vercel variant
C21_Witness ==
  /\ compare_call.pc = "answered"
  /\ NamesNigeria(compare_call.sms)
  /\ compare_call.premium.type = "warning"
  /\ compare_call.vercel.type = "safe"

(***************************************************************************)
(* Properties of the moderation and curation endpoints served together     *)
(***************************************************************************)
\* no two entries of the list have the same normalised code
NoDuplicateCodes(codes) ==
  \A i, j \in DOMAIN codes :
     i /= j => normalize_code(codes[i].code) /= normalize_code(codes[j].code)

\* C24: starting from a curated collection without duplicates, after any
\* sequence of add, bulk-add (also one that lists a code twice),
\* approve-report and import-file requests, no two curated entries have the
\* same normalised code.
C24_NoDuplicateCuratedCodes == NoDuplicateCodes(load_curated_codes(curated_file))

\* a bulk-add that lists a curated code twice has been answered 200 and has
\* saved the collection, which holds the code
C24_Witness ==
  \E p \in Requests :
     /\ requests[p].pc = "done" /\ requests[p].resp = 200
     /\ requests[p].body.op = "bulk_add_codes"
     /\ requests[p].body.codes = <<CodeData(ContentA), CodeData(ContentA)>>
     /\ curated_file.json
     /\ IsCurated(curated_file.data, ContentA)

\* the stored collections
Stores == <<reports_file, curated_file, safe_file, blacklist_file>>

\* this step ends request p with an error response
EndsInError(p) ==
  /\ requests[p].pc /= "done"
  /\ requests'[p].pc = "done"
  /\ requests'[p].resp >= 400

\* C25: a moderation or curation request that ends in an error leaves the
\* reports, the curated codes, the safe list and the blacklist unchanged: the
\* step that answers it is the only step the request takes, and it writes
\* nothing.
C25_ErrorLeavesStoresUnchanged ==
  [][\A p \in Requests : EndsInError(p) => (requests[p] = Idle /\ Stores' = Stores)]_vars

\* every kind of failing request of the claim has been answered
ErrorAnswered(op, status) ==
  \E p \in Requests :
     /\ requests[p].pc = "done"
     /\ requests[p].body.op = op
     /\ requests[p].resp = status

\* a bulk-add whose second entry is malformed has been answered 500 after a
\* delete of an absent code was answered 404, with curated codes on disk
C25_Witness ==
  /\ ErrorAnswered("delete_curated_code", 404)
  /\ \E p \in Requests :
       /\ requests[p].pc = "done" /\ requests[p].resp = 500
       /\ requests[p].body.op = "bulk_add_codes"
       /\ requests[p].body.codes = <<CodeData(ContentA), Malformed>>
  /\ curated_file.json /\ curated_file.data /= <<>>

\* C26: a curation request that names a code which is not yet curated adds
\* it, and the code is in the safe list afterwards: once /curation/add is
\* answered for a new code, load_safe_ussd() holds the code as /check-ussd
\* normalises it.
C26_AddedCodeIsSafe ==
  \A p \in Requests :
     (/\ requests[p].pc = "done"
      /\ requests[p].body.op = "add_curated_code"
      /\ requests[p].resp /= 400)
        => normalize_ussd(requests[p].body.code) \in load_code_set(safe_file)

\* /curation/add for a code that is not curated has been answered 500, and
\* the code is neither curated nor in the safe list
C26_AddRaises ==
  \E p \in Requests :
     /\ requests[p].pc = "done" /\ requests[p].resp = 500
     /\ requests[p].body.op = "add_curated_code"
     /\ ~IsCurated(load_curated_codes(curated_file), requests[p].body.code)
     /\ normalize_ussd(requests[p].body.code) \notin load_code_set(safe_file)

(***************************************************************************)
(* Properties of the simulation of automatic SMS detection                 *)
(***************************************************************************)
\* C29: after any sequence of simulate_incoming_sms calls the two counters
\* account for every message: scam_messages_detected +
\* legitimate_messages_passed, the total that print_stats reports, equals
\* the number of messages processed.
C29_CountersAccountForEveryMessage ==
  /\ detector.scam_messages_detected + detector.legitimate_messages_passed
       = detector.messages
  /\ detector.stats.printed => detector.stats.total = detector.stats.messages

\* print_stats has reported a total of 2 after 3 messages: one alert, one
\* legitimate message and one message that neither counter counted
C29_UncountedMessage ==
  /\ detector.stats.printed
  /\ detector.stats.messages = 3
  /\ detector.stats.total = 2
  /\ detector.scam_messages_detected = 1
  /\ detector.legitimate_messages_passed = 1

(***************************************************************************)
(* Properties of /mobile/check beside /check-ussd                          *)
(***************************************************************************)
\* the code of the comparison is on the blacklist
ComparedBlacklisted ==
  normalize_ussd(compare_call.code) \in load_code_set(blacklist_file)

\* C30: for the same code and the same safe list, blacklist and cache,
\* /mobile/check and /check-ussd (full_mode off) return the same safe
\* verdict, and neither reports a blacklisted code safe.
C30_SameSafeVerdict ==
  (compare_call.pc = "compared" /\ compare_call.standard.status = 200) =>
     /\ compare_call.mobile.safe = compare_call.standard.body.safe
     /\ ComparedBlacklisted =>
          ~compare_call.mobile.safe /\ ~compare_call.standard.body.safe

\* /mobile/check reports a blacklisted code safe, from the safe list, and
\* /check-ussd answers safe=false, Blacklisted
C30_BlacklistedButSafeOnMobile ==
  /\ compare_call.pc = "compared"
  /\ ComparedBlacklisted
  /\ compare_call.standard.status = 200
  /\ ~compare_call.standard.body.safe
  /\ compare_call.standard.body.score = 10
  /\ compare_call.mobile.safe
  /\ compare_call.mobile.confidence = 95


====
